---- MODULE Spec2Model ----
(***************************************************************************)
(* A model of the linkus community bot: the discipline engine of           *)
(* discipline_cog.py and the reaction-role mapping cache of                *)
(* reaction_roles_cog.py, both driving the backend through                 *)
(* bot_backend_client.py.                                                  *)
(*                                                                         *)
(* Every action is the code of one handler between two awaits.  A backend  *)
(* call of the discipline engine is one step (the server's answer and the  *)
(* continuation up to the next await, which touches handler-local state    *)
(* only); a backend call of the reaction cog is two steps (the server      *)
(* handles the request; the handler resumes with the response), because    *)
(* the continuation touches the shared cache.                              *)
(***************************************************************************)
EXTENDS Integers, Sequences, FiniteSets, TLC

(* ------------------------------ bounds -------------------------------- *)
NumUsers == 2
NumRoles == 1
NumHandlers == 2
MaxEvents == 2
MaxMessages == 2
NumEmojis == 2

Users == 1..NumUsers
Roles == 1..NumRoles
Handlers == 1..NumHandlers
Messages == 1..MaxMessages
Emojis == 1..NumEmojis

(* ------------------------ discipline_cog.py --------------------------- *)
BAN_DISCIPLINE_TYPE_NAME == "ban"
ADD_ROLE_DISCIPLINE_TYPE_NAME == "add_role"
KICK_DISCIPLINE_TYPE_NAME == "kick"
DisciplineTypes ==
  {BAN_DISCIPLINE_TYPE_NAME, ADD_ROLE_DISCIPLINE_TYPE_NAME, KICK_DISCIPLINE_TYPE_NAME}

\* the duration strings a moderator may give; "None" is the absent argument
Durations == {"None", "bogus", "0s", "1h"}

VARIABLES
  events,        \* backend: the discipline events, oldest first; an event's id is its index
  member_roles,  \* platform: the roles each user holds in the guild
  dh,            \* the command handlers of DisciplineCog in flight
  last_op        \* history: per (user, type), the last successful apply or pardon
                 \* (or the expiry of the event last applied) and the event it was about

VARIABLES
  backend_embeds,          \* backend: the guild's reaction-role embeds, message -> (emoji -> role)
  next_message,            \* platform: the id the next message sent by the bot gets
  reaction_mapping_cache,  \* ReactionRolesCog: guild -> (message -> the dict object of its mappings)
  heap,                    \* the dict objects the cache and the handlers refer to: emoji -> role
  mapping_cache_lock,      \* ReactionRolesCog: the handler inside the lock's block, 0 when free
  rh                       \* the listeners and command handlers of ReactionRolesCog in flight

VARIABLES
  gw,            \* the call of BotBackendClient in flight, its HTTP exchange and its outcome
  rs,            \* the call of a resolver of DisciplineCog: the guild, the arguments, the outcome
  bl             \* the on_member_ban listener of DisciplineCog in flight, and the ban it is about

gvars == <<gw, rs, bl>>
dvars == <<events, member_roles, dh, last_op>>
rvars == <<backend_embeds, next_message, reaction_mapping_cache, heap, mapping_cache_lock,
           rh>>
vars == <<gw, rs, bl, events, member_roles, dh, last_op, backend_embeds, next_message,
          reaction_mapping_cache, heap, mapping_cache_lock, rh>>

\* pytimeparse.timeparse: seconds, or -1 for None (the string is no duration)
timeparse(duration) ==
  CASE duration = "0s" -> 0
    [] duration = "1h" -> 3600
    [] OTHER -> -1

IdleHandler ==
  [pc |-> "idle", cmd |-> "none", user_object |-> 0, discipline_type_name |-> "none",
   duration |-> "None", matched_role |-> 0, commit_err |-> FALSE, created_event |-> 0,
   latest_discipline |-> 0, msgs |-> <<>>, calls |-> <<>>,
   q_last |-> [op |-> "none", id |-> 0]]

\* ctx.channel.send(...) by the handler: the kind of message sent
Send(rec, kind) == [rec EXCEPT !.msgs = Append(@, kind)]

\* history: the backend or platform call a handler made, and whether it succeeded
Called(rec, op, ok) == [rec EXCEPT !.calls = Append(@, <<op, ok>>)]

HasCalled(rec, op) == \E i \in 1..Len(rec.calls) : rec.calls[i][1] = op

\* the backend stores at most MaxEvents events: a command that may create one
\* starts only while there is room for it
Appliers == {h \in Handlers : dh[h].pc \in {"commit_type", "commit_create"}}
CanCreate == Len(events) + Cardinality(Appliers) < MaxEvents

(* --- the backend's view of the events --- *)
EventsOf(user, type) ==
  {i \in 1..Len(events) : events[i].user = user /\ events[i].type = type}

\* GET discipline-event/get_latest_discipline: the id of the latest event of the type
\* for the user, 0 for the 404 answer
BackendLatestOfType(user, type) ==
  IF EventsOf(user, type) = {} THEN 0
  ELSE CHOOSE i \in EventsOf(user, type) : \A j \in EventsOf(user, type) : j <= i

IsActive(e) == ~e.is_terminated /\ ~e.is_pardoned

(* --- _apply_discipline --- *)
\* an apply that goes on to the backend without looking at what timeparse answered
ApplyDiscipline_Unparsed(rec, user, type, duration, role) ==
  [rec EXCEPT !.pc = "commit_type", !.user_object = user, !.discipline_type_name = type,
              !.duration = duration, !.matched_role = role]

\* lines 337-355: the duration is parsed before anything is sent to the backend
ApplyDiscipline(rec, user, type, duration, role) ==
  IF duration # "None" /\ timeparse(duration) = -1
  THEN [Send(rec, "not_a_valid_duration") EXCEPT !.pc = "done", !.duration = duration]
  ELSE [rec EXCEPT !.pc = "commit_type", !.user_object = user,
                   !.discipline_type_name = type, !.duration = duration,
                   !.matched_role = role]

\* datetimes: None, or datetime.now() as read by the apply plus a number of seconds
NoneTime == [base |-> "None", plus |-> 0]
DatetimeNow == [base |-> "now", plus |-> 0]
PlusSeconds(t, seconds) == [t EXCEPT !.plus = @ + seconds]

\* an event that is never created in the terminated state
NewEvent_NeverTerminated(rec) ==
  [user |-> rec.user_object,
   type |-> rec.discipline_type_name,
   content |-> rec.matched_role,
   end_time |-> IF rec.duration = "None" THEN NoneTime
                ELSE PlusSeconds(DatetimeNow, timeparse(rec.duration)),
   is_terminated |-> FALSE,
   is_pardoned |-> FALSE]

\* lines 339-362 with discipline_event_create: the event a commit creates
NewEvent(rec) ==
  [user |-> rec.user_object,
   type |-> rec.discipline_type_name,
   content |-> rec.matched_role,
   end_time |-> IF rec.duration = "None" THEN NoneTime
                ELSE IF timeparse(rec.duration) = 0 THEN DatetimeNow
                ELSE PlusSeconds(DatetimeNow, timeparse(rec.duration)),
   is_terminated |-> rec.duration # "None" /\ timeparse(rec.duration) = 0,
   is_pardoned |-> FALSE]

\* tempban (and ban, which is tempban with no duration); user = 0: not resolved
StartTempban(h, user, duration) ==
  /\ dh[h].pc = "idle"
  /\ CanCreate
  /\ LET rec == [IdleHandler EXCEPT !.cmd = "tempban"] IN
     dh' = [dh EXCEPT ![h] =
              IF user = 0 THEN [Send(rec, "resolve_error") EXCEPT !.pc = "done"]
              ELSE ApplyDiscipline(rec, user, BAN_DISCIPLINE_TYPE_NAME, duration, 0)]
  /\ UNCHANGED <<events, member_roles, last_op>>
  /\ UNCHANGED <<rvars, gvars>>

\* temp_add_role without its test of the roles the member holds
StartTempAddRole_NoHeldCheck(h, user, role, duration) ==
  /\ dh[h].pc = "idle"
  /\ CanCreate
  /\ LET rec == [IdleHandler EXCEPT !.cmd = "temp_add_role"] IN
     dh' = [dh EXCEPT ![h] =
              IF user = 0 THEN [Send(rec, "resolve_error") EXCEPT !.pc = "done"]
              ELSE IF role = 0 THEN [rec EXCEPT !.pc = "done"]
              ELSE ApplyDiscipline(rec, user, ADD_ROLE_DISCIPLINE_TYPE_NAME, duration, role)]
  /\ UNCHANGED <<events, member_roles, last_op>>
  /\ UNCHANGED <<rvars, gvars>>

\* temp_add_role (and add_role, mute, tempmute); role = 0: no role matches
StartTempAddRole(h, user, role, duration) ==
  /\ dh[h].pc = "idle"
  /\ CanCreate
  /\ LET rec == [IdleHandler EXCEPT !.cmd = "temp_add_role"] IN
     dh' = [dh EXCEPT ![h] =
              IF user = 0 THEN [Send(rec, "resolve_error") EXCEPT !.pc = "done"]
              ELSE IF role = 0 THEN [rec EXCEPT !.pc = "done"]
              ELSE IF role \in member_roles[user]
                   THEN [Send(rec, "already_has_role") EXCEPT !.pc = "done"]
              ELSE ApplyDiscipline(rec, user, ADD_ROLE_DISCIPLINE_TYPE_NAME, duration, role)]
  /\ UNCHANGED <<events, member_roles, last_op>>
  /\ UNCHANGED <<rvars, gvars>>

\* kick: a discipline of duration "0s"
StartKick(h, user) ==
  /\ dh[h].pc = "idle"
  /\ CanCreate
  /\ LET rec == [IdleHandler EXCEPT !.cmd = "kick"] IN
     dh' = [dh EXCEPT ![h] =
              IF user = 0 THEN [Send(rec, "resolve_error") EXCEPT !.pc = "done"]
              ELSE ApplyDiscipline(rec, user, KICK_DISCIPLINE_TYPE_NAME, "0s", 0)]
  /\ UNCHANGED <<events, member_roles, last_op>>
  /\ UNCHANGED <<rvars, gvars>>

\* _commit_user_discipline, first await: the type id is looked up by name
CommitTypeLookup(h) ==
  /\ dh[h].pc = "commit_type"
  /\ \E ok \in BOOLEAN :
       dh' = [dh EXCEPT ![h] =
                IF ok THEN [Called(@, "type_lookup", TRUE) EXCEPT !.pc = "commit_create"]
                ELSE [Called(@, "type_lookup", FALSE) EXCEPT
                        !.commit_err = TRUE, !.pc = "after_commit"]]
  /\ UNCHANGED <<events, member_roles, last_op>>
  /\ UNCHANGED <<rvars, gvars>>

\* a creation that leaves an event behind also when it reports failure
CommitEventCreate_LeavesEventOnFailure(h) ==
  /\ dh[h].pc = "commit_create"
  /\ \E ok \in BOOLEAN :
       /\ events' = Append(events, NewEvent(dh[h]))
       /\ IF ok
          THEN /\ dh' = [dh EXCEPT ![h] =
                           [Called(@, "event_create", TRUE) EXCEPT
                              !.created_event = Len(events) + 1, !.pc = "after_commit"]]
               /\ last_op' = [last_op EXCEPT
                                ![<<dh[h].user_object, dh[h].discipline_type_name>>] =
                                  [op |-> IF NewEvent(dh[h]).is_terminated
                                          THEN "applied_terminated" ELSE "applied",
                                   id |-> Len(events) + 1]]
          ELSE /\ dh' = [dh EXCEPT ![h] =
                           [Called(@, "event_create", FALSE) EXCEPT
                              !.commit_err = TRUE, !.pc = "after_commit"]]
               /\ UNCHANGED last_op
  /\ UNCHANGED member_roles
  /\ UNCHANGED <<rvars, gvars>>

\* _commit_user_discipline, second await: discipline_event_create
CommitEventCreate(h) ==
  /\ dh[h].pc = "commit_create"
  /\ \E ok \in BOOLEAN :
       IF ok
       THEN /\ events' = Append(events, NewEvent(dh[h]))
            /\ dh' = [dh EXCEPT ![h] =
                        [Called(@, "event_create", TRUE) EXCEPT
                           !.created_event = Len(events) + 1, !.pc = "after_commit"]]
            /\ last_op' = [last_op EXCEPT
                             ![<<dh[h].user_object, dh[h].discipline_type_name>>] =
                               [op |-> IF NewEvent(dh[h]).is_terminated
                                       THEN "applied_terminated" ELSE "applied",
                                id |-> Len(events) + 1]]
       ELSE /\ dh' = [dh EXCEPT ![h] =
                        [Called(@, "event_create", FALSE) EXCEPT
                           !.commit_err = TRUE, !.pc = "after_commit"]]
            /\ UNCHANGED <<events, last_op>>
  /\ UNCHANGED member_roles
  /\ UNCHANGED <<rvars, gvars>>

\* the platform-side coroutine of each command, when it runs and succeeds
DiscordCoroutine(rec) ==
  member_roles' =
    CASE rec.cmd = "temp_add_role" ->
           [member_roles EXCEPT ![rec.user_object] = @ \cup {rec.matched_role}]
      [] rec.cmd = "remove_role" ->
           [member_roles EXCEPT ![rec.user_object] = @ \ {rec.matched_role}]
      [] rec.cmd \in {"tempban", "kick"} ->
           [member_roles EXCEPT ![rec.user_object] = {}]
      [] OTHER -> member_roles

\* awaiting the coroutine: the platform performs it, or the await raises and the
\* command ends in on_command_error
AwaitCoroutine(h, success_msg) ==
  \/ /\ DiscordCoroutine(dh[h])
     /\ dh' = [dh EXCEPT ![h] =
                 [Send(Called(@, "platform", TRUE), success_msg) EXCEPT !.pc = "done"]]
  \/ /\ dh' = [dh EXCEPT ![h] =
                 [Send(Called(@, "platform", FALSE), "internal_error") EXCEPT !.pc = "done"]]
     /\ UNCHANGED member_roles

\* the coroutine awaited whatever the commit returned
ApplyAfterCommit_Ungated(h) ==
  /\ dh[h].pc = "after_commit"
  /\ AwaitCoroutine(h, IF dh[h].commit_err THEN "not_disciplined" ELSE "applied")
  /\ UNCHANGED <<events, last_op>>
  /\ UNCHANGED <<rvars, gvars>>

\* an apply that takes its event back when the platform refused: the event is
\* marked pardoned before the command ends
ApplyAfterCommit_Compensating(h) ==
  /\ dh[h].pc = "after_commit"
  /\ IF ~dh[h].commit_err
     THEN \/ /\ DiscordCoroutine(dh[h])
             /\ dh' = [dh EXCEPT ![h] =
                         [Send(Called(@, "platform", TRUE), "applied") EXCEPT !.pc = "done"]]
             /\ UNCHANGED events
          \/ /\ dh' = [dh EXCEPT ![h] =
                         [Send(Called(@, "platform", FALSE), "internal_error") EXCEPT
                            !.pc = "done"]]
             /\ events' = [events EXCEPT ![dh[h].created_event].is_pardoned = TRUE]
             /\ UNCHANGED member_roles
     ELSE /\ dh' = [dh EXCEPT ![h] = [Send(@, "not_disciplined") EXCEPT !.pc = "done"]]
          /\ UNCHANGED <<events, member_roles>>
  /\ UNCHANGED last_op
  /\ UNCHANGED <<rvars, gvars>>

\* lines 374-406: the coroutine is awaited only when the commit made no error;
\* otherwise it is wrapped in a task that is cancelled before its first step
ApplyAfterCommit(h) ==
  /\ dh[h].pc = "after_commit"
  /\ IF ~dh[h].commit_err
     THEN AwaitCoroutine(h, "applied")
     ELSE /\ dh' = [dh EXCEPT ![h] = [Send(@, "not_disciplined") EXCEPT !.pc = "done"]]
          /\ UNCHANGED member_roles
  /\ UNCHANGED <<events, last_op>>
  /\ UNCHANGED <<rvars, gvars>>

(* --- _pardon_discipline --- *)
\* unban; user = 0: not resolved
StartUnban(h, user) ==
  /\ dh[h].pc = "idle"
  /\ LET rec == [IdleHandler EXCEPT !.cmd = "unban"] IN
     dh' = [dh EXCEPT ![h] =
              IF user = 0 THEN [Send(rec, "resolve_error") EXCEPT !.pc = "done"]
              ELSE [rec EXCEPT !.pc = "query", !.user_object = user,
                               !.discipline_type_name = BAN_DISCIPLINE_TYPE_NAME]]
  /\ UNCHANGED <<events, member_roles, last_op>>
  /\ UNCHANGED <<rvars, gvars>>

\* remove_role (and unmute); role = 0: no role matches
StartRemoveRole(h, user, role) ==
  /\ dh[h].pc = "idle"
  /\ LET rec == [IdleHandler EXCEPT !.cmd = "remove_role"] IN
     dh' = [dh EXCEPT ![h] =
              IF user = 0 THEN [Send(rec, "resolve_error") EXCEPT !.pc = "done"]
              ELSE IF role = 0 THEN [rec EXCEPT !.pc = "done"]
              ELSE [rec EXCEPT !.pc = "query", !.user_object = user,
                               !.discipline_type_name = ADD_ROLE_DISCIPLINE_TYPE_NAME,
                               !.matched_role = role]]
  /\ UNCHANGED <<events, member_roles, last_op>>
  /\ UNCHANGED <<rvars, gvars>>

\* _is_user_disciplined without its check of is_pardoned
IsUserDisciplined_NoPardonCheck(answer) ==
  CASE answer = -1 -> <<0, "error">>
    [] answer = 0 -> <<0, "not_been_disciplined">>
    [] events[answer].is_terminated -> <<0, "expired">>
    [] OTHER -> <<answer, "none">>

\* _is_user_disciplined that reports a backend error as "never disciplined"
IsUserDisciplined_ErrorAsReason(answer) ==
  CASE answer = -1 -> <<0, "not_been_disciplined">>
    [] answer = 0 -> <<0, "not_been_disciplined">>
    [] events[answer].is_pardoned -> <<0, "pardoned">>
    [] events[answer].is_terminated -> <<0, "expired">>
    [] OTHER -> <<answer, "none">>

\* _is_user_disciplined on the backend's answer: the id of the active event, or 0
\* and the reason; answer = -1 is a backend error, 0 the empty result
IsUserDisciplined(answer) ==
  CASE answer = -1 -> <<0, "error">>
    [] answer = 0 -> <<0, "not_been_disciplined">>
    [] events[answer].is_pardoned -> <<0, "pardoned">>
    [] events[answer].is_terminated -> <<0, "expired">>
    [] OTHER -> <<answer, "none">>

QueryAnswer(h, ok) ==
  IF ok THEN BackendLatestOfType(dh[h].user_object, dh[h].discipline_type_name) ELSE -1

\* the report sent, but the handler goes on as if the user were disciplined
PardonQuery_NoReturn(h) ==
  /\ dh[h].pc = "query"
  /\ \E ok \in BOOLEAN :
       LET res == IsUserDisciplined(QueryAnswer(h, ok))
           rec == [Called(dh[h], "get_latest", ok) EXCEPT
                     !.q_last = last_op[<<dh[h].user_object, dh[h].discipline_type_name>>]]
       IN  dh' = [dh EXCEPT ![h] =
                    IF res[1] = 0
                    THEN [Send(rec, "no_record_" \o res[2]) EXCEPT !.pc = "set_pardoned"]
                    ELSE [rec EXCEPT !.latest_discipline = res[1], !.pc = "set_pardoned"]]
  /\ UNCHANGED <<events, member_roles, last_op>>
  /\ UNCHANGED <<rvars, gvars>>

\* lines 422-428: the query, and the report when the user is not disciplined
PardonQuery(h) ==
  /\ dh[h].pc = "query"
  /\ \E ok \in BOOLEAN :
       LET res == IsUserDisciplined(QueryAnswer(h, ok))
           rec == [Called(dh[h], "get_latest", ok) EXCEPT
                     !.q_last = last_op[<<dh[h].user_object, dh[h].discipline_type_name>>]]
       IN  dh' = [dh EXCEPT ![h] =
                    IF res[1] = 0
                    THEN [Send(rec, "no_record_" \o res[2]) EXCEPT !.pc = "done"]
                    ELSE [rec EXCEPT !.latest_discipline = res[1], !.pc = "set_pardoned"]]
  /\ UNCHANGED <<events, member_roles, last_op>>
  /\ UNCHANGED <<rvars, gvars>>

\* the reversal reached also when the backend refused the pardon
PardonSetPardoned_Ungated(h) ==
  /\ dh[h].pc = "set_pardoned"
  /\ \E ok \in BOOLEAN :
       IF ok
       THEN /\ events' = [events EXCEPT ![dh[h].latest_discipline].is_pardoned = TRUE]
            /\ dh' = [dh EXCEPT ![h] =
                        [Called(@, "set_pardoned", TRUE) EXCEPT !.pc = "pardon_coroutine"]]
            /\ last_op' = [last_op EXCEPT
                             ![<<dh[h].user_object, dh[h].discipline_type_name>>] =
                               [op |-> "pardoned", id |-> dh[h].latest_discipline]]
       ELSE /\ dh' = [dh EXCEPT ![h] =
                        [Send(Called(@, "set_pardoned", FALSE), "unable_to_pardon") EXCEPT
                           !.pc = "pardon_coroutine"]]
            /\ UNCHANGED <<events, last_op>>
  /\ UNCHANGED member_roles
  /\ UNCHANGED <<rvars, gvars>>

\* a pardon that flips is_pardoned instead of setting it
PardonSetPardoned_Toggle(h) ==
  /\ dh[h].pc = "set_pardoned"
  /\ \E ok \in BOOLEAN :
       IF ok
       THEN /\ events' = [events EXCEPT ![dh[h].latest_discipline].is_pardoned = ~@]
            /\ dh' = [dh EXCEPT ![h] =
                        [Called(@, "set_pardoned", TRUE) EXCEPT !.pc = "pardon_coroutine"]]
            /\ last_op' = [last_op EXCEPT
                             ![<<dh[h].user_object, dh[h].discipline_type_name>>] =
                               [op |-> "pardoned", id |-> dh[h].latest_discipline]]
       ELSE /\ dh' = [dh EXCEPT ![h] =
                        [Send(Called(@, "set_pardoned", FALSE), "unable_to_pardon") EXCEPT
                           !.pc = "done"]]
            /\ UNCHANGED <<events, last_op>>
  /\ UNCHANGED member_roles
  /\ UNCHANGED <<rvars, gvars>>

\* lines 429-434: discipline_event_set_pardoned(id, True)
PardonSetPardoned(h) ==
  /\ dh[h].pc = "set_pardoned"
  /\ \E ok \in BOOLEAN :
       IF ok
       THEN /\ events' = [events EXCEPT ![dh[h].latest_discipline].is_pardoned = TRUE]
            /\ dh' = [dh EXCEPT ![h] =
                        [Called(@, "set_pardoned", TRUE) EXCEPT !.pc = "pardon_coroutine"]]
            /\ last_op' = [last_op EXCEPT
                             ![<<dh[h].user_object, dh[h].discipline_type_name>>] =
                               [op |-> "pardoned", id |-> dh[h].latest_discipline]]
       ELSE /\ dh' = [dh EXCEPT ![h] =
                        [Send(Called(@, "set_pardoned", FALSE), "unable_to_pardon") EXCEPT
                           !.pc = "done"]]
            /\ UNCHANGED <<events, last_op>>
  /\ UNCHANGED member_roles
  /\ UNCHANGED <<rvars, gvars>>

\* lines 435-441: the platform-side reversal and the report
PardonCoroutine(h) ==
  /\ dh[h].pc = "pardon_coroutine"
  /\ AwaitCoroutine(h, "pardoned")
  /\ UNCHANGED <<events, last_op>>
  /\ UNCHANGED <<rvars, gvars>>

\* the backend terminates an event whose end time has passed
BackendExpire(i) ==
  /\ i \in 1..Len(events)
  /\ events[i].end_time.plus > 0
  /\ ~events[i].is_terminated
  /\ events' = [events EXCEPT ![i].is_terminated = TRUE]
  /\ last_op' = IF last_op[<<events[i].user, events[i].type>>] = [op |-> "applied", id |-> i]
                THEN [last_op EXCEPT ![<<events[i].user, events[i].type>>].op = "expired"]
                ELSE last_op
  /\ UNCHANGED <<member_roles, dh>>
  /\ UNCHANGED <<rvars, gvars>>

\* the command has returned; the handler is free for the next command
Finish(h) ==
  /\ dh[h].pc = "done"
  /\ dh' = [dh EXCEPT ![h] = IdleHandler]
  /\ UNCHANGED <<events, member_roles, last_op>>
  /\ UNCHANGED <<rvars, gvars>>

DInit ==
  /\ events = <<>>
  /\ member_roles = [u \in Users |-> {}]
  /\ dh = [h \in Handlers |-> IdleHandler]
  /\ last_op = [s \in Users \X DisciplineTypes |-> [op |-> "none", id |-> 0]]

\* the commands moderators give, their arguments drawn from the given users; a
\* command is taken by the first free handler
DStart(US) ==
  \E h \in Handlers :
    /\ \A g \in Handlers : g < h => dh[g].pc # "idle"
    /\ \/ \E u \in US \cup {0}, d \in Durations : StartTempban(h, u, d)
       \/ \E u \in US \cup {0}, r \in Roles \cup {0}, d \in Durations :
            StartTempAddRole(h, u, r, d)
       \/ \E u \in US \cup {0} : StartKick(h, u)
       \/ \E u \in US \cup {0} : StartUnban(h, u)
       \/ \E u \in US \cup {0}, r \in Roles \cup {0} : StartRemoveRole(h, u, r)

DStep ==
  \/ \E h \in Handlers :
       \/ CommitTypeLookup(h)
       \/ CommitEventCreate(h)
       \/ ApplyAfterCommit(h)
       \/ PardonQuery(h)
       \/ PardonSetPardoned(h)
       \/ PardonCoroutine(h)
       \/ Finish(h)
  \/ \E i \in 1..MaxEvents : BackendExpire(i)

AllIdle == \A h \in Handlers : dh[h].pc = "idle"

\* handlers interleave at their awaits; the commands are about one user
DNext == DStart({1}) \/ DStep
\* one command at a time, about any user
DNextSeq == (AllIdle /\ DStart(Users)) \/ DStep


(* ----------------------- reaction_roles_cog.py ------------------------ *)
\* the one guild the bot serves
Guild == 1

\* the dict objects that can be alive at once: one per cached message, one per handler
ObjIds == 1..(MaxMessages + NumHandlers)

\* a dict: key -> value, as a function on its keys
EmptyDict == [k \in {} |-> 0]
DictSet(d, k, v) == [x \in DOMAIN d \cup {k} |-> IF x = k THEN v ELSE d[x]]
DictPop(d, k) == [x \in DOMAIN d \ {k} |-> d[x]]

\* the emoji -> role dicts a moderator may give to create, over the emojis ES
Mappings(ES) == UNION {[D -> Roles] : D \in SUBSET ES}

IdleReact ==
  [pc |-> "idle", op |-> "none", message |-> 0, emoji |-> 0, role |-> 0,
   id_mapping |-> EmptyDict, mapping_dict |-> 0, response |-> "none",
   reaction_embed_list |-> <<>>, mapped_role |-> 0, msgs |-> <<>>, unlocked |-> FALSE,
   guild |-> "none", member |-> "none", looked_up |-> FALSE, get_role |-> "not_called",
   role_change |-> "none"]

\* the handler returns: its locals are gone, what it reported remains
Return(rec) ==
  [IdleReact EXCEPT !.pc = "done", !.op = rec.op, !.msgs = rec.msgs,
                    !.mapped_role = rec.mapped_role, !.unlocked = rec.unlocked,
                    !.guild = rec.guild, !.member = rec.member,
                    !.looked_up = rec.looked_up, !.get_role = rec.get_role,
                    !.role_change = rec.role_change]

\* the handler returns with a last message sent or printed, or an exception raised
Tell(rec, kind) == Return([rec EXCEPT !.msgs = Append(@, kind)])

(* --- the dict objects --- *)
HandlerRefs(handlers) == {handlers[h].mapping_dict : h \in Handlers} \ {0}
CacheRefs(cache) == UNION {{cache[g][m] : m \in DOMAIN cache[g]} : g \in DOMAIN cache}

\* the dict objects nothing refers to any more are collected
Collect(hp, cache, handlers) ==
  [i \in DOMAIN hp \cap (CacheRefs(cache) \cup HandlerRefs(handlers)) |-> hp[i]]

\* a new dict object: the least id not in use
NewDict(used) == CHOOSE i \in ObjIds \ used : \A j \in ObjIds \ used : i <= j

\* self._reaction_mapping_cache[Guild] read through the references: message -> mappings
CachedEmbeds ==
  IF Guild \in DOMAIN reaction_mapping_cache
  THEN [m \in DOMAIN reaction_mapping_cache[Guild] |-> heap[reaction_mapping_cache[Guild][m]]]
  ELSE EmptyDict

(* --- _populate_reaction_embed_guild_cache --- *)
RECURSIVE SortedSeq(_)
SortedSeq(S) ==
  IF S = {} THEN <<>>
  ELSE LET least == CHOOSE x \in S : \A y \in S : x <= y
       IN  <<least>> \o SortedSeq(S \ {least})

\* the backend's answer to reaction_role_embed_list; entry `bad` (if any) lacks a key
EmbedList(bad) ==
  LET ms == SortedSeq(DOMAIN backend_embeds)
  IN  [k \in 1..Len(ms) |->
         [message_snowflake |-> ms[k], mappings |-> backend_embeds[ms[k]],
          well_formed |-> k # bad]]

\* lines 59-68: the loop over the fetched list; the KeyError of a malformed entry
\* returns from inside the loop
RECURSIVE PopulateLoop(_, _, _, _)
PopulateLoop(list, k, guild_cache, hp) ==
  IF k > Len(list) THEN <<guild_cache, hp>>
  ELSE IF ~list[k].well_formed THEN <<guild_cache, hp>>
  ELSE LET m == list[k].message_snowflake
           used == {guild_cache[x] : x \in DOMAIN guild_cache \ {m}} \cup HandlerRefs(rh)
           id == NewDict(used)
       IN  PopulateLoop(list, k + 1, DictSet(guild_cache, m, id),
                        DictSet(hp, id, list[k].mappings))

\* lines 55-69: <<cache, heap>> after the population that fetched rec.response
Populate(rec) ==
  IF rec.response = "err" THEN <<reaction_mapping_cache, heap>>
  ELSE LET guild_cache == IF Guild \in DOMAIN reaction_mapping_cache
                          THEN reaction_mapping_cache[Guild] ELSE EmptyDict
           res == PopulateLoop(rec.reaction_embed_list, 1, guild_cache, heap)
       IN  <<DictSet(reaction_mapping_cache, Guild, res[1]), res[2]>>

\* _handle_reaction_remove taken for both listeners: the role is always revoked
HandleRoleChange_AlwaysRemoves(rec, ok) ==
  IF rec.member = "none" THEN Tell(rec, "AttributeError")
  ELSE IF ~ok THEN Tell(rec, "HTTPException")
  ELSE Return([rec EXCEPT !.role_change = "remove_roles"])

\* _handle_reaction_add / _handle_reaction_remove, lines 93-96 and 111-114, with the
\* role the lookup found: member.add_roles / member.remove_roles, which raises an
\* AttributeError on a member that is None, and which the platform may refuse
HandleRoleChange(rec, ok) ==
  IF rec.member = "none" THEN Tell(rec, "AttributeError")
  ELSE IF ~ok THEN Tell(rec, "HTTPException")
  ELSE Return([rec EXCEPT !.role_change = IF rec.op = "reaction_add" THEN "add_roles"
                                          ELSE "remove_roles"])

\* the member whose reactions the listeners receive, as a user of the platform
ReactingMember == 1

\* the platform's effect of the member.add_roles / member.remove_roles call the
\* listener `rec` made (PUT / DELETE of the member's role) on the roles users hold
PlatformRoles(roles, rec) ==
  IF rec.role_change = "add_roles"
  THEN [roles EXCEPT ![ReactingMember] = @ \cup {rec.mapped_role}]
  ELSE IF rec.role_change = "remove_roles"
  THEN [roles EXCEPT ![ReactingMember] = @ \ {rec.mapped_role}]
  ELSE roles

\* lines 34-44 and the handler that called: the lookup inside the lock's block, on the
\* given cache.  guild.get_role gives None for a role that no longer exists (`exists`
\* false) and does not raise, so the lookup returns (None, None) and the handler reports
\* the error None
RetrieveLocked(rec, cache, hp, exists, ok) ==
  IF Guild \notin DOMAIN cache THEN Tell(rec, "KeyError")
  ELSE IF rec.message \notin DOMAIN cache[Guild]
       THEN Tell(rec, "not_a_reaction_role_message")
  ELSE IF rec.emoji \notin DOMAIN hp[cache[Guild][rec.message]]
       THEN Tell(rec, "emoji_not_mapped")
  ELSE IF ~exists THEN Tell([rec EXCEPT !.get_role = "None"], "None")
  ELSE HandleRoleChange([rec EXCEPT !.mapped_role = hp[cache[Guild][rec.message]][rec.emoji],
                                    !.get_role = "Role"],
                        ok)

\* lines 116-147: <<guild, member>> as _convert_reaction_event returns them; the guild
\* is "known" when payload.guild_id names a guild of the bot, the member is
\* payload.member on an add and guild.get_member(payload.user_id) on a remove
ConvertReactionEvent(op, guild, member) ==
  IF guild # "known" THEN <<"none", "none">>
  ELSE IF member = "none" /\ op = "reaction_add" THEN <<"none", "none">>
  ELSE <<guild, member>>

\* on_ready: `guild in cache` compares a Guild to the int keys outside the lock and
\* is never true, so the guild is populated again
StartOnReady(h) ==
  /\ rh[h].pc = "idle"
  /\ rh' = [rh EXCEPT ![h] =
              [IdleReact EXCEPT !.op = "on_ready", !.pc = "list_request", !.unlocked = TRUE]]
  /\ UNCHANGED <<backend_embeds, next_message, reaction_mapping_cache, heap,
                 mapping_cache_lock>>
  /\ UNCHANGED <<dvars, gvars>>

\* on_raw_reaction_add (op "reaction_add") / on_raw_reaction_remove (op
\* "reaction_remove") up to the first await of _retrieve_reaction_emoji_role: only the
\* add listener drops the event of an unresolved member or of the bot itself; the guild
\* test of line 32 raises on a guild that is None, and is outside the lock
StartReaction(h, op, guild, member, m, e) ==
  /\ rh[h].pc = "idle"
  /\ m < next_message
  /\ mapping_cache_lock = 0
  /\ LET conv == ConvertReactionEvent(op, guild, member)
         rec == [IdleReact EXCEPT !.op = op, !.guild = guild, !.member = member,
                                  !.message = m, !.emoji = e]
         look == [rec EXCEPT !.member = conv[2], !.looked_up = TRUE, !.unlocked = TRUE]
     IN  \E exists, ok \in BOOLEAN :
           rh' = [rh EXCEPT ![h] =
                    IF op = "reaction_add" /\ conv[2] \in {"none", "bot"} THEN Return(rec)
                    ELSE IF conv[1] # "known" THEN Tell(rec, "AttributeError")
                    ELSE IF Guild \in DOMAIN reaction_mapping_cache
                    THEN RetrieveLocked(look, reaction_mapping_cache, heap, exists, ok)
                    ELSE [look EXCEPT !.pc = "list_request"]]
  /\ UNCHANGED <<backend_embeds, next_message, reaction_mapping_cache, heap,
                 mapping_cache_lock>>
  /\ UNCHANGED <<dvars, gvars>>

\* the backend serves reaction_role_embed_list
BackendList(h) ==
  /\ rh[h].pc = "list_request"
  /\ \/ rh' = [rh EXCEPT ![h] = [@ EXCEPT !.response = "err", !.pc = "list_response"]]
     \/ \E bad \in 0..Cardinality(DOMAIN backend_embeds) :
          rh' = [rh EXCEPT ![h] = [@ EXCEPT !.response = "ok", !.pc = "list_response",
                                             !.reaction_embed_list = EmbedList(bad)]]
  /\ UNCHANGED <<backend_embeds, next_message, reaction_mapping_cache, heap,
                 mapping_cache_lock>>
  /\ UNCHANGED <<dvars, gvars>>

\* a population that does not release the lock when it returns on a malformed entry
PopulateResponse_KeepsLock(h) ==
  /\ rh[h].pc = "list_response"
  /\ mapping_cache_lock = 0
  /\ LET populated == Populate(rh[h]) IN
       /\ reaction_mapping_cache' = populated[1]
       /\ \E exists, ok \in BOOLEAN :
            rh' = [rh EXCEPT ![h] =
                     IF @.op = "on_ready" THEN Return(@)
                     ELSE RetrieveLocked(@, populated[1], populated[2], exists, ok)]
       /\ heap' = Collect(populated[2], populated[1], rh')
  /\ mapping_cache_lock' =
       IF rh[h].response = "ok"
          /\ \E k \in 1..Len(rh[h].reaction_embed_list) :
               ~rh[h].reaction_embed_list[k].well_formed
       THEN h ELSE 0
  /\ UNCHANGED <<backend_embeds, next_message>>
  /\ UNCHANGED <<dvars, gvars>>

\* the population resumes with the list; a reaction's lookup follows without an await
PopulateResponse(h) ==
  /\ rh[h].pc = "list_response"
  /\ mapping_cache_lock = 0
  /\ LET populated == Populate(rh[h]) IN
       /\ reaction_mapping_cache' = populated[1]
       /\ \E exists, ok \in BOOLEAN :
            rh' = [rh EXCEPT ![h] =
                     IF @.op = "on_ready" THEN Return(@)
                     ELSE RetrieveLocked(@, populated[1], populated[2], exists, ok)]
       /\ heap' = Collect(populated[2], populated[1], rh')
  /\ UNCHANGED <<backend_embeds, next_message, mapping_cache_lock>>
  /\ UNCHANGED <<dvars, gvars>>

(* --- react create --- *)
\* create up to the first await of _create_on_backend: the bot has sent the message
\* that is to carry the reactions
StartCreate(h, mapping) ==
  /\ rh[h].pc = "idle"
  /\ next_message <= MaxMessages
  /\ rh' = [rh EXCEPT ![h] =
              [IdleReact EXCEPT !.op = "create", !.message = next_message,
                                !.id_mapping = mapping, !.pc = "create_request"]]
  /\ next_message' = next_message + 1
  /\ UNCHANGED <<backend_embeds, reaction_mapping_cache, heap, mapping_cache_lock>>
  /\ UNCHANGED <<dvars, gvars>>

\* the backend serves reaction_role_embed_create
BackendCreate(h) ==
  /\ rh[h].pc = "create_request"
  /\ \/ /\ backend_embeds' = DictSet(backend_embeds, rh[h].message, rh[h].id_mapping)
        /\ rh' = [rh EXCEPT ![h] = [@ EXCEPT !.response = "ok", !.pc = "create_response"]]
     \/ /\ rh' = [rh EXCEPT ![h] = [@ EXCEPT !.response = "err", !.pc = "create_response"]]
        /\ UNCHANGED backend_embeds
  /\ UNCHANGED <<next_message, reaction_mapping_cache, heap, mapping_cache_lock>>
  /\ UNCHANGED <<dvars, gvars>>

\* _create_on_backend without its return on a failed creation: the cache gets the
\* mapping whatever the backend answered
CreateResponse_InsertsOnFailure(h) ==
  /\ rh[h].pc = "create_response"
  /\ mapping_cache_lock = 0
  /\ LET guild_cache == IF Guild \in DOMAIN reaction_mapping_cache
                        THEN reaction_mapping_cache[Guild] ELSE EmptyDict
         id == NewDict({guild_cache[x] : x \in DOMAIN guild_cache \ {rh[h].message}}
                         \cup HandlerRefs(rh))
     IN  /\ reaction_mapping_cache' =
              DictSet(reaction_mapping_cache, Guild,
                      DictSet(guild_cache, rh[h].message, id))
         /\ \/ rh' = [rh EXCEPT ![h] =
                        Tell(@, IF rh[h].response = "err" THEN "create_error"
                                ELSE "created")]
            \/ rh' = [rh EXCEPT ![h] = Tell(@, "internal_error")]
         /\ heap' = Collect(DictSet(heap, id, rh[h].id_mapping),
                            reaction_mapping_cache', rh')
  /\ UNCHANGED <<backend_embeds, next_message, mapping_cache_lock>>
  /\ UNCHANGED <<dvars, gvars>>

\* lines 165-173, then 300-315 of create: the cache gets a copy of the mapping once
\* the backend has created; the message is then edited, which the platform may refuse
CreateResponse(h) ==
  /\ rh[h].pc = "create_response"
  /\ mapping_cache_lock = 0
  /\ IF rh[h].response = "err"
     THEN /\ rh' = [rh EXCEPT ![h] = Tell(@, "create_error")]
          /\ UNCHANGED <<reaction_mapping_cache, heap>>
     ELSE LET guild_cache == IF Guild \in DOMAIN reaction_mapping_cache
                             THEN reaction_mapping_cache[Guild] ELSE EmptyDict
              id == NewDict({guild_cache[x] : x \in DOMAIN guild_cache \ {rh[h].message}}
                              \cup HandlerRefs(rh))
          IN  /\ reaction_mapping_cache' =
                   DictSet(reaction_mapping_cache, Guild,
                           DictSet(guild_cache, rh[h].message, id))
              /\ \/ rh' = [rh EXCEPT ![h] = Tell(@, "created")]
                 \/ rh' = [rh EXCEPT ![h] = Tell(@, "internal_error")]
              /\ heap' = Collect(DictSet(heap, id, rh[h].id_mapping),
                                 reaction_mapping_cache', rh')
  /\ UNCHANGED <<backend_embeds, next_message, mapping_cache_lock>>
  /\ UNCHANGED <<dvars, gvars>>

(* --- react add --- *)
\* the cache mutated before the backend is asked
StartAdd_WriteFirst(h, m, e, r) ==
  /\ rh[h].pc = "idle"
  /\ m < next_message
  /\ LET rec == [IdleReact EXCEPT !.op = "add", !.message = m, !.emoji = e, !.role = r,
                                  !.unlocked = TRUE]
     IN  IF Guild \in DOMAIN reaction_mapping_cache
            /\ m \in DOMAIN reaction_mapping_cache[Guild]
         THEN /\ rh' = [rh EXCEPT ![h] =
                          [rec EXCEPT !.mapping_dict = reaction_mapping_cache[Guild][m],
                                      !.pc = "add_request"]]
              /\ heap' = [heap EXCEPT ![reaction_mapping_cache[Guild][m]] = DictSet(@, e, r)]
         ELSE /\ rh' = [rh EXCEPT ![h] = Tell(rec, "does_not_exist")]
              /\ UNCHANGED heap
  /\ UNCHANGED <<backend_embeds, next_message, reaction_mapping_cache,
                 mapping_cache_lock>>
  /\ UNCHANGED <<dvars, gvars>>

\* lines 457-461: the message's dict is taken from the cache, outside the lock
StartAdd(h, m, e, r) ==
  /\ rh[h].pc = "idle"
  /\ m < next_message
  /\ LET rec == [IdleReact EXCEPT !.op = "add", !.message = m, !.emoji = e, !.role = r,
                                  !.unlocked = TRUE]
     IN  rh' = [rh EXCEPT ![h] =
                  IF Guild \in DOMAIN reaction_mapping_cache
                     /\ m \in DOMAIN reaction_mapping_cache[Guild]
                  THEN [rec EXCEPT !.mapping_dict = reaction_mapping_cache[Guild][m],
                                   !.pc = "add_request"]
                  ELSE Tell(rec, "does_not_exist")]
  /\ UNCHANGED <<backend_embeds, next_message, reaction_mapping_cache, heap,
                 mapping_cache_lock>>
  /\ UNCHANGED <<dvars, gvars>>

\* the backend serves reaction_role_embed_add_mappings; it knows the embed or refuses
BackendAddMappings(h) ==
  /\ rh[h].pc = "add_request"
  /\ \/ /\ rh[h].message \in DOMAIN backend_embeds
        /\ backend_embeds' = [backend_embeds EXCEPT ![rh[h].message] =
                                DictSet(@, rh[h].emoji, rh[h].role)]
        /\ rh' = [rh EXCEPT ![h] = [@ EXCEPT !.response = "ok", !.pc = "add_response"]]
     \/ /\ rh' = [rh EXCEPT ![h] = [@ EXCEPT !.response = "err", !.pc = "add_response"]]
        /\ UNCHANGED backend_embeds
  /\ UNCHANGED <<next_message, reaction_mapping_cache, heap, mapping_cache_lock>>
  /\ UNCHANGED <<dvars, gvars>>

\* lines 466-474: the dict taken before the call is written outside the lock, then
\* the reaction is added to the message, which the platform may refuse
AddResponse(h) ==
  /\ rh[h].pc = "add_response"
  /\ IF rh[h].response = "err"
     THEN /\ rh' = [rh EXCEPT ![h] = Tell(@, "unable_to_add")]
          /\ heap' = Collect(heap, reaction_mapping_cache, rh')
     ELSE /\ \/ rh' = [rh EXCEPT ![h] = Tell(@, "added")]
             \/ rh' = [rh EXCEPT ![h] = Tell(@, "internal_error")]
          /\ heap' = Collect([heap EXCEPT ![rh[h].mapping_dict] =
                                 DictSet(@, rh[h].emoji, rh[h].role)],
                             reaction_mapping_cache, rh')
  /\ UNCHANGED <<backend_embeds, next_message, reaction_mapping_cache, mapping_cache_lock>>
  /\ UNCHANGED <<dvars, gvars>>

(* --- react remove --- *)
\* lines 485-495: the message's dict is taken from the cache, outside the lock; an
\* emoji the dict does not map is reported, and the command goes on
StartRemove(h, m, e) ==
  /\ rh[h].pc = "idle"
  /\ m < next_message
  /\ LET rec == [IdleReact EXCEPT !.op = "remove", !.message = m, !.emoji = e,
                                  !.unlocked = TRUE]
     IN  rh' = [rh EXCEPT ![h] =
                  IF Guild \in DOMAIN reaction_mapping_cache
                     /\ m \in DOMAIN reaction_mapping_cache[Guild]
                  THEN [rec EXCEPT
                          !.mapping_dict = reaction_mapping_cache[Guild][m],
                          !.msgs = IF e \in DOMAIN heap[reaction_mapping_cache[Guild][m]]
                                   THEN <<>> ELSE <<"no_mapping_for_emoji">>,
                          !.pc = "remove_request"]
                  ELSE Tell(rec, "does_not_exist")]
  /\ UNCHANGED <<backend_embeds, next_message, reaction_mapping_cache, heap,
                 mapping_cache_lock>>
  /\ UNCHANGED <<dvars, gvars>>

\* the backend serves reaction_role_embed_remove_mappings
BackendRemoveMappings(h) ==
  /\ rh[h].pc = "remove_request"
  /\ \/ /\ rh[h].message \in DOMAIN backend_embeds
        /\ backend_embeds' = [backend_embeds EXCEPT ![rh[h].message] =
                                DictPop(@, rh[h].emoji)]
        /\ rh' = [rh EXCEPT ![h] = [@ EXCEPT !.response = "ok", !.pc = "remove_response"]]
     \/ /\ rh' = [rh EXCEPT ![h] = [@ EXCEPT !.response = "err", !.pc = "remove_response"]]
        /\ UNCHANGED backend_embeds
  /\ UNCHANGED <<next_message, reaction_mapping_cache, heap, mapping_cache_lock>>
  /\ UNCHANGED <<dvars, gvars>>

\* lines 501-508: the emoji is popped from the dict taken before the call, outside the
\* lock (a KeyError when the dict does not map it), then the reaction is cleared
RemoveResponse(h) ==
  /\ rh[h].pc = "remove_response"
  /\ IF rh[h].response = "err"
     THEN /\ rh' = [rh EXCEPT ![h] = Tell(@, "unable_to_remove")]
          /\ heap' = Collect(heap, reaction_mapping_cache, rh')
     ELSE IF rh[h].emoji \notin DOMAIN heap[rh[h].mapping_dict]
     THEN /\ rh' = [rh EXCEPT ![h] = Tell(@, "internal_error")]
          /\ heap' = Collect(heap, reaction_mapping_cache, rh')
     ELSE /\ \/ rh' = [rh EXCEPT ![h] = Tell(@, "removed")]
             \/ rh' = [rh EXCEPT ![h] = Tell(@, "internal_error")]
          /\ heap' = Collect([heap EXCEPT ![rh[h].mapping_dict] = DictPop(@, rh[h].emoji)],
                             reaction_mapping_cache, rh')
  /\ UNCHANGED <<backend_embeds, next_message, reaction_mapping_cache, mapping_cache_lock>>
  /\ UNCHANGED <<dvars, gvars>>

(* --- react delete --- *)
StartDelete(h, m) ==
  /\ rh[h].pc = "idle"
  /\ m < next_message
  /\ rh' = [rh EXCEPT ![h] =
              [IdleReact EXCEPT !.op = "delete", !.message = m, !.pc = "delete_request"]]
  /\ UNCHANGED <<backend_embeds, next_message, reaction_mapping_cache, heap,
                 mapping_cache_lock>>
  /\ UNCHANGED <<dvars, gvars>>

\* the backend serves reaction_role_embed_delete
BackendDelete(h) ==
  /\ rh[h].pc = "delete_request"
  /\ \/ /\ rh[h].message \in DOMAIN backend_embeds
        /\ backend_embeds' = DictPop(backend_embeds, rh[h].message)
        /\ rh' = [rh EXCEPT ![h] = [@ EXCEPT !.response = "ok", !.pc = "delete_response"]]
     \/ /\ rh' = [rh EXCEPT ![h] = [@ EXCEPT !.response = "err", !.pc = "delete_response"]]
        /\ UNCHANGED backend_embeds
  /\ UNCHANGED <<next_message, reaction_mapping_cache, heap, mapping_cache_lock>>
  /\ UNCHANGED <<dvars, gvars>>

\* lines 407-416: the command message is deleted on the platform, which may refuse
\* and end the command; only then is the embed popped from the cache, outside the lock
DeleteResponse(h) ==
  /\ rh[h].pc = "delete_response"
  /\ IF rh[h].response = "err"
     THEN /\ rh' = [rh EXCEPT ![h] = Tell(@, "unable_to_delete")]
          /\ UNCHANGED <<reaction_mapping_cache, heap>>
     ELSE \/ /\ rh' = [rh EXCEPT ![h] = Tell(@, "internal_error")]
             /\ UNCHANGED <<reaction_mapping_cache, heap>>
          \/ /\ IF Guild \in DOMAIN reaction_mapping_cache
                   /\ rh[h].message \in DOMAIN reaction_mapping_cache[Guild]
                THEN /\ reaction_mapping_cache' =
                          [reaction_mapping_cache EXCEPT ![Guild] = DictPop(@, rh[h].message)]
                     /\ rh' = [rh EXCEPT ![h] = Return([@ EXCEPT !.unlocked = TRUE])]
                     /\ heap' = Collect(heap, reaction_mapping_cache', rh')
                ELSE /\ rh' = [rh EXCEPT ![h] =
                                 Tell([@ EXCEPT !.unlocked = TRUE], "error_clearing_cache")]
                     /\ UNCHANGED <<reaction_mapping_cache, heap>>
  /\ UNCHANGED <<backend_embeds, next_message, mapping_cache_lock>>
  /\ UNCHANGED <<dvars, gvars>>

\* the listener or command has returned
RFinish(h) ==
  /\ rh[h].pc = "done"
  /\ rh' = [rh EXCEPT ![h] = IdleReact]
  /\ UNCHANGED <<backend_embeds, next_message, reaction_mapping_cache, heap,
                 mapping_cache_lock>>
  /\ UNCHANGED <<dvars, gvars>>

\* __init__ (lines 12-16), with a backend that holds no embed of the guild yet
RInit ==
  /\ backend_embeds = EmptyDict
  /\ next_message = 1
  /\ reaction_mapping_cache = EmptyDict
  /\ heap = EmptyDict
  /\ mapping_cache_lock = 0
  /\ rh = [h \in Handlers |-> IdleReact]

\* what a reaction payload resolves to: the guild and the reacting member
PayloadGuilds == {"none", "unknown", "known"}
PayloadMembers == {"none", "member", "bot"}

\* an event or command is taken by the first free handler; its emojis are drawn from
\* ES, the guild and member of a reaction payload from GS and MS
RStart(ES, GS, MS) ==
  \E h \in Handlers :
    /\ \A g \in Handlers : g < h => rh[g].pc # "idle"
    /\ \/ StartOnReady(h)
       \/ \E op \in {"reaction_add", "reaction_remove"}, guild \in GS, member \in MS,
             m \in Messages, e \in ES : StartReaction(h, op, guild, member, m, e)
       \/ \E mapping \in Mappings(ES) : StartCreate(h, mapping)
       \/ \E m \in Messages, e \in ES, r \in Roles : StartAdd(h, m, e, r)
       \/ \E m \in Messages, e \in ES : StartRemove(h, m, e)
       \/ \E m \in Messages : StartDelete(h, m)

RStep ==
  \E h \in Handlers :
    \/ BackendList(h)
    \/ PopulateResponse(h)
    \/ BackendCreate(h)
    \/ CreateResponse(h)
    \/ BackendAddMappings(h)
    \/ AddResponse(h)
    \/ BackendRemoveMappings(h)
    \/ RemoveResponse(h)
    \/ BackendDelete(h)
    \/ DeleteResponse(h)
    \/ RFinish(h)

RAllIdle == \A h \in Handlers : rh[h].pc = "idle"

\* the listeners and commands interleave at their awaits; one emoji is in use, and
\* the reactions are those of a member of the guild
RNext == RStart({1}, {"known"}, {"member"}) \/ RStep
\* one listener or command at a time, any emoji, any reaction payload
RNextSeq == (RAllIdle /\ RStart(Emojis, PayloadGuilds, PayloadMembers)) \/ RStep

\* the bot process is started again: the cog is constructed anew (lines 12-16) with
\* an empty cache and no handler in flight, while the backend keeps what it holds
Restart ==
  /\ reaction_mapping_cache # EmptyDict
  /\ reaction_mapping_cache' = EmptyDict
  /\ heap' = EmptyDict
  /\ rh' = [h \in Handlers |-> IdleReact]
  /\ UNCHANGED <<backend_embeds, next_message, mapping_cache_lock>>
  /\ UNCHANGED <<dvars, gvars>>

\* one listener or command at a time, and restarts of the bot
RNextRestart == RNextSeq \/ Restart

(* ---------------------- bot_backend_client.py ------------------------- *)
MaxPages == 3
PageSize == 2

\* the operations of BotBackendClient
GatewayOps ==
  {"discipline_type_get_list", "discipline_type_get_by_name", "discipline_event_create",
   "discipline_event_get", "discipline_event_get_all_for_user",
   "discipline_event_get_latest_discipline_of_type", "discipline_event_set_pardoned",
   "discipline_event_get_latest_by_username", "reaction_role_embed_create",
   "reaction_role_embed_get", "reaction_role_embed_list", "reaction_role_embed_delete",
   "reaction_role_embed_add_mappings", "reaction_role_embed_remove_mappings"}

\* what an HTTP exchange comes to: a response with a status, or
\* aiohttp.ClientConnectionError
Statuses == {"200", "201", "404", "500"}
Exchanges == Statuses \cup {"ClientConnectionError"}

\* the status each operation takes for success
SuccessStatus(op) ==
  IF op \in {"discipline_event_create", "reaction_role_embed_create",
             "reaction_role_embed_add_mappings"} THEN "201" ELSE "200"

\* the operations that return the error message alone
ErrorOnlyOps ==
  {"discipline_event_set_pardoned", "reaction_role_embed_delete",
   "reaction_role_embed_add_mappings", "reaction_role_embed_remove_mappings"}

IdleCall ==
  [pc |-> "idle", op |-> "none", pages |-> 0, last_has_next |-> FALSE, req_url |-> 0,
   results |-> <<>>, exchange |-> "none", value |-> "none", err |-> "none",
   raised |-> "none"]

\* the call returns value and error message ("None" for Python's None)
GwReturn(call, value, err) == [call EXCEPT !.pc = "done", !.value = value, !.err = err]
GwRaise(call, exc) == [call EXCEPT !.pc = "done", !.raised = exc]

\* page i of the backend's list of the user's events, in the backend's order
Page(i) == [k \in 1..PageSize |-> (i - 1) * PageSize + k]

\* lines 136-151: one turn of the loop of discipline_event_get_all_for_user on the
\* response to the request for page call.req_url; page i < pages carries the pointer
\* to page i + 1, the last page carries a null 'next' field or none
GetAllForUserTurn(call, exchange) ==
  LET c == [call EXCEPT !.exchange = exchange]
      has_next == c.req_url < c.pages \/ c.last_has_next
      next == IF c.req_url < c.pages THEN c.req_url + 1 ELSE 0
      after == IF has_next THEN [c EXCEPT !.results = @ \o Page(c.req_url), !.req_url = next]
               ELSE [c EXCEPT !.req_url = 0]
  IN IF exchange = "ClientConnectionError" THEN GwReturn(c, "None", "unable_to_contact_database")
     ELSE IF exchange # "200" THEN GwRaise(c, "ValueError")
     ELSE IF after.req_url # 0 THEN after
     ELSE GwReturn(after, "list", "None")

\* a client for which a 404 is an HTTP error like any other
SingleExchange_NotFoundIsError(call, exchange, well_formed) ==
  LET c == [call EXCEPT !.exchange = exchange]
      none == IF c.op \in ErrorOnlyOps THEN "none" ELSE "None"
  IN IF exchange = "ClientConnectionError"
     THEN [c EXCEPT !.pc = "done", !.value = none, !.err = "unable_to_contact_database"]
     ELSE IF exchange # SuccessStatus(c.op)
          THEN [c EXCEPT !.pc = "done", !.value = none, !.err = "http_error"]
     ELSE [c EXCEPT !.pc = "done", !.value = IF c.op \in ErrorOnlyOps THEN "none" ELSE "json",
                    !.err = "None"]

\* lines 24-125 and 153-347: the outcome of the single exchange of every other operation;
\* well_formed tells whether the body of an embed carries its 'mappings' (line 265)
SingleExchange(call, exchange, well_formed) ==
  LET c == [call EXCEPT !.exchange = exchange]
      none == IF c.op \in ErrorOnlyOps THEN "none" ELSE "None"
  IN IF exchange = "ClientConnectionError" THEN GwReturn(c, none, "unable_to_contact_database")
     ELSE IF exchange = "404" /\ c.op = "discipline_event_get_latest_discipline_of_type"
          THEN GwReturn(c, "empty_dict", "None")
     ELSE IF exchange = "404" /\ c.op = "discipline_event_get_latest_by_username"
          THEN GwReturn(c, "None", "never_disciplined")
     ELSE IF exchange # SuccessStatus(c.op)
          THEN IF c.op = "discipline_event_get" THEN GwRaise(c, "ValueError")
               ELSE GwReturn(c, none, "http_error")
     ELSE IF c.op = "reaction_role_embed_get" /\ ~well_formed
          THEN GwReturn(c, "None", "formatting_error")
     ELSE IF c.op \in ErrorOnlyOps THEN GwReturn(c, "none", "None")
     ELSE GwReturn(c, "json", "None")

\* a cog calls an operation of the client
GwCall ==
  /\ gw.pc \in {"idle", "done"}
  /\ \E op \in GatewayOps, n \in 1..MaxPages, lhn \in BOOLEAN :
       gw' = IF op = "discipline_event_get_all_for_user"
             THEN [IdleCall EXCEPT !.pc = "request", !.op = op, !.pages = n,
                                   !.last_has_next = lhn, !.req_url = 1]
             ELSE [IdleCall EXCEPT !.pc = "request", !.op = op]
  /\ UNCHANGED <<dvars, rvars, rs, bl>>

\* the exchange with the backend completes
GwExchange ==
  /\ gw.pc = "request"
  /\ \E exchange \in Exchanges, well_formed \in BOOLEAN :
       gw' = IF gw.op = "discipline_event_get_all_for_user"
             THEN GetAllForUserTurn(gw, exchange)
             ELSE SingleExchange(gw, exchange, well_formed)
  /\ UNCHANGED <<dvars, rvars, rs, bl>>

GInit == gw = IdleCall
GNext == GwCall \/ GwExchange

(* ------------- discipline_cog.py: the resolvers (lines 147-239) ------------- *)
NumIds == 2
MaxLen == 2

\* snowflakes of the users, members and roles the platform knows
Ids == 1..NumIds
\* strings are sequences of characters
Chars == {"a", "A", "1", "2"}
Strings == UNION {[1..n -> Chars] : n \in 1..MaxLen}

\* str.lower()
LowerChar(c) == IF c = "A" THEN "a" ELSE c
Lower(str) == [i \in 1..Len(str) |-> LowerChar(str[i])]

\* int(str): the decimal value of a string of digits; IsNumeric is false where int
\* raises ValueError
DigitValue(c) == IF c = "1" THEN 1 ELSE 2
IsNumeric(str) == \A i \in 1..Len(str) : str[i] \in {"1", "2"}
RECURSIVE IntOf(_)
IntOf(str) ==
  IF str = <<>> THEN 0
  ELSE 10 * IntOf(SubSeq(str, 1, Len(str) - 1)) + DigitValue(str[Len(str)])

\* what an id is on the platform: a member of the guild, a user known to the bot
\* outside the guild, a role of the guild, or nothing the bot knows
Kinds == {"member", "user", "unknown"}
Guilds == [kind : [Ids -> Kinds], name : [Ids -> Strings]]

\* Guild.get_member_named: the first member of that exact name, 0 for None
get_member_named(guild, name) ==
  LET found == {i \in Ids : guild.kind[i] = "member" /\ guild.name[i] = name}
  IN IF found = {} THEN 0 ELSE CHOOSE i \in found : \A j \in found : i <= j

\* Guild.get_member and Bot.get_user: the object of that id, 0 for None
get_member(guild, id) == IF id \in Ids /\ guild.kind[id] = "member" THEN id ELSE 0
get_user(guild, id) == IF id \in Ids /\ guild.kind[id] \in {"member", "user"} THEN id ELSE 0

\* Guild.get_role and Guild.roles, over a guild whose "member" ids are its roles
get_role(guild, id) == get_member(guild, id)

IdleResolve ==
  [pc |-> "idle", fn |-> "none", guild |-> [kind |-> <<>>, name |-> <<>>],
   identifier |-> <<>>, database_fallback |-> FALSE, result |-> 0, err |-> "none",
   backend_called |-> FALSE, latest_event |-> 0, raised |-> "none"]

ResReturn(call, result, err) == [call EXCEPT !.pc = "done", !.result = result, !.err = err]

\* a resolver that asks the backend whatever database_fallback says
ResolveUser_AlwaysAsks(call, latest_event, fetch) ==
  LET named == get_member_named(call.guild, call.identifier)
      user_snowflake == IntOf(call.identifier)
      user_obj ==
        IF named # 0 THEN named
        ELSE IF ~IsNumeric(call.identifier) THEN 0
        ELSE IF get_member(call.guild, user_snowflake) # 0
             THEN get_member(call.guild, user_snowflake)
        ELSE get_user(call.guild, user_snowflake)
      asked == [call EXCEPT !.backend_called = TRUE, !.latest_event = latest_event]
  IN IF user_obj # 0 THEN [call EXCEPT !.pc = "done", !.result = user_obj, !.err = "None"]
     ELSE IF latest_event = 0
          THEN [asked EXCEPT !.pc = "done", !.result = 0, !.err = "does_not_exist"]
     ELSE IF fetch = "User"
          THEN [asked EXCEPT !.pc = "done", !.result = latest_event, !.err = "None"]
     ELSE IF fetch = "NotFound"
          THEN [asked EXCEPT !.pc = "done", !.result = 0, !.err = "does_not_exist"]
     ELSE [asked EXCEPT !.pc = "done", !.raised = fetch]

\* lines 147-189; latest_event is 0 when the backend has no event under the username
\* or fails, else the snowflake the event records; fetch is what Bot.fetch_user does
ResolveUser(call, latest_event, fetch) ==
  LET named == get_member_named(call.guild, call.identifier)
      user_snowflake == IntOf(call.identifier)
      user_obj ==
        IF named # 0 THEN named
        ELSE IF ~IsNumeric(call.identifier) THEN 0
        ELSE IF get_member(call.guild, user_snowflake) # 0
             THEN get_member(call.guild, user_snowflake)
        ELSE get_user(call.guild, user_snowflake)
      asked == [call EXCEPT !.backend_called = TRUE, !.latest_event = latest_event]
  IN IF user_obj # 0 THEN ResReturn(call, user_obj, "None")
     ELSE IF ~call.database_fallback THEN ResReturn(call, 0, "does_not_exist")
     ELSE IF latest_event = 0 THEN ResReturn(asked, 0, "does_not_exist")
     ELSE IF fetch = "User" THEN ResReturn(asked, latest_event, "None")
     ELSE IF fetch = "NotFound" THEN ResReturn(asked, 0, "does_not_exist")
     ELSE [asked EXCEPT !.pc = "done", !.raised = fetch]

\* lines 191-212
ResolveMember(call) ==
  LET named == get_member_named(call.guild, call.identifier)
      user_obj == IF IsNumeric(call.identifier)
                  THEN get_member(call.guild, IntOf(call.identifier))
                  ELSE named
  IN IF user_obj = 0 THEN ResReturn(call, 0, "not_currently_a_member")
     ELSE ResReturn(call, user_obj, "None")

\* `await x` on a value that is no awaitable raises TypeError
Await(x) == "TypeError"

\* lines 214-239; the guild's roles are listed in the order of their ids
ResolveRole(call) ==
  LET role_name == call.identifier
      matching_roles == {i \in Ids : /\ call.guild.kind[i] = "member"
                                     /\ Lower(call.guild.name[i]) = role_name}
      by_id == IF ~IsNumeric(role_name) THEN "ValueError"
               ELSE Await(get_role(call.guild, IntOf(role_name)))
  IN IF matching_roles = {}
     THEN IF by_id \in {"ValueError", "TypeError", "NotFound"}
          THEN ResReturn(call, 0, "no_role_matching_name")
          ELSE ResReturn(call, get_role(call.guild, IntOf(role_name)), "None")
     ELSE ResReturn(call, CHOOSE i \in matching_roles : \A j \in matching_roles : i <= j,
                    IF Cardinality(matching_roles) > 1 THEN "multiple_matches" ELSE "None")

Resolvers == {"_resolve_user", "_resolve_member", "_resolve_role"}

\* a command calls a resolver on the guild as it is then
ResolveCall ==
  /\ rs.pc = "idle"
  /\ \E fn \in Resolvers, guild \in Guilds, identifier \in Strings, fallback \in BOOLEAN :
       /\ fallback => fn = "_resolve_user"
       /\ rs' = [IdleResolve EXCEPT !.pc = "called", !.fn = fn, !.guild = guild,
                                    !.identifier = identifier,
                                    !.database_fallback = fallback]
  /\ UNCHANGED <<dvars, rvars, gw, bl>>

\* the resolver runs to its return
ResolveRun ==
  /\ rs.pc = "called"
  /\ \E latest_event \in {0} \cup Ids, fetch \in {"User", "NotFound", "HTTPException"} :
       rs' = IF rs.fn = "_resolve_user" THEN ResolveUser(rs, latest_event, fetch)
             ELSE IF rs.fn = "_resolve_member" THEN ResolveMember(rs)
             ELSE ResolveRole(rs)
  /\ UNCHANGED <<dvars, rvars, gw, bl>>

ResInit == rs = IdleResolve
ResNext == ResolveCall \/ ResolveRun

(* ------------- discipline_cog.py: on_member_ban (lines 40-83) ------------- *)
\* who issues a ban: the bot (through a ban command) or a moderator in the client;
\* "none" is Python's None, "0" the id the listener falls back to
BotUser == "bot"
Issuers == {BotUser, "mod"}
Reasons == {"None", "text"}

\* User.__eq__ of discord.py against an int: no int is a user
UserEqualsId(user, id) == FALSE

IdleListener ==
  [pc |-> "idle", user |-> 0, issuer |-> "none", reason |-> "None", audit_logs |-> <<>>,
   banned_user |-> 0, initiating_user |-> "none", ban_reason |-> "None",
   mod_user_id |-> "none", created_event |-> 0, raised |-> "none"]

\* the entries guild.audit_logs(action=ban) yields, newest first, when the listener
\* runs for the ban of user by issuer: bans of other users made since, the entry of
\* this ban if the log has it already, and an older ban
AuditLogs(user, issuer, reason) ==
  LET newer == {<<>>} \cup {<<[target |-> u, user |-> "mod", reason |-> "text"]>> :
                              u \in Users \ {user}}
      this == {<<>>, <<[target |-> user, user |-> issuer, reason |-> reason]>>}
      older == {<<>>} \cup {<<[target |-> u, user |-> "mod", reason |-> "text"]>> :
                              u \in Users}
  IN {n \o t \o o : n \in newer, t \in this, o \in older}

\* lines 49-58: the scan from entry k on; acc holds banned_user, initiating_user,
\* ban_reason and whether the listener returned from inside the loop
RECURSIVE ScanAuditLogs(_, _, _, _)
ScanAuditLogs(log, k, user, acc) ==
  IF k > Len(log) THEN acc
  ELSE LET seen == [acc EXCEPT !.banned_user = log[k].target]
       IN IF log[k].target # user THEN ScanAuditLogs(log, k + 1, user, seen)
          ELSE IF UserEqualsId(log[k].user, BotUser)
               THEN [seen EXCEPT !.initiating_user = log[k].user, !.returned = TRUE]
          ELSE [seen EXCEPT !.initiating_user = log[k].user, !.ban_reason = log[k].reason]

\* the platform reports a ban: on_member_ban starts for it
BanDispatch(user, issuer, reason) ==
  \E log \in AuditLogs(user, issuer, reason) :
    bl' = [IdleListener EXCEPT !.pc = "scan", !.user = user, !.issuer = issuer,
                               !.reason = reason, !.audit_logs = log]

\* the member-banned event of a ban that a ban command of the bot has performed
BotBanEvent(h) ==
  /\ bl.pc = "idle"
  /\ dh[h].cmd = "tempban" /\ dh[h].pc = "done"
  /\ \E k \in 1..Len(dh[h].calls) : dh[h].calls[k] = <<"platform", TRUE>>
  /\ Len(events) < MaxEvents
  /\ BanDispatch(dh[h].user_object, BotUser, "text")
  /\ dh' = [dh EXCEPT ![h] = IdleHandler]
  /\ UNCHANGED <<events, member_roles, last_op>>
  /\ UNCHANGED <<rvars, gw, rs>>

\* a moderator bans a user in the client
ExternalBanEvent(user) ==
  /\ bl.pc = "idle"
  /\ \A h \in Handlers : dh[h].pc = "idle"
  /\ Len(events) < MaxEvents
  /\ last_op[<<user, BAN_DISCIPLINE_TYPE_NAME>>].op \notin {"applied", "banned_externally"}
  /\ \E reason \in Reasons : BanDispatch(user, "mod", reason)
  /\ member_roles' = [member_roles EXCEPT ![user] = {}]
  /\ last_op' = [last_op EXCEPT ![<<user, BAN_DISCIPLINE_TYPE_NAME>>].op = "banned_externally"]
  /\ UNCHANGED <<events, dh>>
  /\ UNCHANGED <<rvars, gw, rs>>

\* lines 46-72: the scan of the audit log, the fallback to guild.fetch_ban, and the
\* decision whether to record the ban; forbidden: the platform refuses the log
OnMemberBanScan ==
  /\ bl.pc = "scan"
  /\ \E forbidden, fetched \in BOOLEAN :
       LET start == [banned_user |-> bl.user, initiating_user |-> "none",
                     ban_reason |-> "None", returned |-> FALSE]
           acc == ScanAuditLogs(bl.audit_logs, 1, bl.user, start)
           rec == [bl EXCEPT !.audit_logs = <<>>, !.banned_user = acc.banned_user,
                             !.initiating_user = acc.initiating_user,
                             !.ban_reason = acc.ban_reason]
           ban_reason == IF acc.ban_reason = "None" THEN bl.reason ELSE acc.ban_reason
           initiating_user_id == IF acc.initiating_user = "none" THEN "0"
                                 ELSE acc.initiating_user
       IN bl' = IF forbidden
                THEN [bl EXCEPT !.pc = "done", !.audit_logs = <<>>, !.raised = "Forbidden"]
                ELSE IF acc.returned THEN [rec EXCEPT !.pc = "done"]
                ELSE IF acc.ban_reason = "None" /\ ~fetched
                     THEN [rec EXCEPT !.pc = "done", !.raised = "HTTPException"]
                ELSE IF initiating_user_id = BotUser
                     THEN [rec EXCEPT !.pc = "done", !.ban_reason = ban_reason,
                                      !.mod_user_id = initiating_user_id]
                ELSE [rec EXCEPT !.pc = "commit_type", !.ban_reason = ban_reason,
                                 !.mod_user_id = initiating_user_id]
  /\ UNCHANGED <<dvars, rvars, gw, rs>>

\* lines 110-112 for the listener: the type id is looked up; an error ends the listener
OnMemberBanTypeLookup ==
  /\ bl.pc = "commit_type"
  /\ \E ok \in BOOLEAN : bl' = [bl EXCEPT !.pc = IF ok THEN "commit_create" ELSE "done"]
  /\ UNCHANGED <<dvars, rvars, gw, rs>>

\* lines 114-130 for the listener: the ban event is created, permanent and active
OnMemberBanEventCreate ==
  /\ bl.pc = "commit_create"
  /\ \E ok \in BOOLEAN :
       IF ok
       THEN /\ events' = Append(events, [user |-> bl.banned_user,
                                         type |-> BAN_DISCIPLINE_TYPE_NAME,
                                         content |-> 0, end_time |-> NoneTime,
                                         is_terminated |-> FALSE, is_pardoned |-> FALSE])
            /\ bl' = [bl EXCEPT !.pc = "done", !.created_event = Len(events) + 1]
       ELSE /\ bl' = [bl EXCEPT !.pc = "done"]
            /\ UNCHANGED events
  /\ UNCHANGED <<member_roles, dh, last_op>>
  /\ UNCHANGED <<rvars, gw, rs>>

\* the listener has returned
OnMemberBanFinish ==
  /\ bl.pc = "done"
  /\ bl' = IdleListener
  /\ UNCHANGED <<dvars, rvars, gw, rs>>

\* a moderator lifts, in the client, the ban of a user; DisciplineCog has no listener
\* for the member-unbanned event (lines 40-87 hold on_member_ban and on_ready only)
ExternalUnbanEvent(user) ==
  /\ bl.pc = "idle"
  /\ \A h \in Handlers : dh[h].pc = "idle"
  /\ last_op[<<user, BAN_DISCIPLINE_TYPE_NAME>>].op = "applied"
  /\ last_op' = [last_op EXCEPT ![<<user, BAN_DISCIPLINE_TYPE_NAME>>].op = "unbanned_externally"]
  /\ UNCHANGED <<events, member_roles, dh, bl>>
  /\ UNCHANGED <<rvars, gw, rs>>

BInit == bl = IdleListener

\* ban and unban commands, one at a time, and what the platform reports
BNext ==
  \/ /\ AllIdle /\ bl.pc = "idle"
     /\ \E u \in Users : \/ \E d \in {"None", "1h"} : StartTempban(1, u, d)
                         \/ StartUnban(1, u)
  \/ bl.pc = "idle" /\ DStep
  \/ BotBanEvent(1)
  \/ \E u \in Users : ExternalBanEvent(u) \/ ExternalUnbanEvent(u)
  \/ OnMemberBanScan
  \/ OnMemberBanTypeLookup
  \/ OnMemberBanEventCreate
  \/ OnMemberBanFinish

Init == DInit /\ RInit /\ GInit /\ ResInit /\ BInit

SpecDisc == Init /\ [][DNext]_vars
SpecDiscSeq == Init /\ [][DNextSeq]_vars
SpecReact == Init /\ [][RNext]_vars
SpecReactSeq == Init /\ [][RNextSeq]_vars
SpecReactRestart == Init /\ [][RNextRestart]_vars
SpecGateway == Init /\ [][GNext]_vars
SpecResolve == Init /\ [][ResNext]_vars
SpecBan == Init /\ [][BNext]_vars

\* the listeners and the command whose code takes the cache lock (lines 34, 57, 169),
\* interleaving at their awaits.  No block of the lock holds an await, and acquiring a
\* free asyncio.Lock does not suspend, so a block is one step; the event loop resumes
\* a handler whose backend call has answered
LockStart ==
  \E h \in Handlers :
    /\ \A g \in Handlers : g < h => rh[g].pc # "idle"
    /\ \/ StartOnReady(h)
       \/ \E op \in {"reaction_add", "reaction_remove"}, m \in Messages :
            StartReaction(h, op, "known", "member", m, 1)
       \/ \E mapping \in Mappings({1}) : StartCreate(h, mapping)

LockStep ==
  \E h \in Handlers :
    \/ BackendList(h)
    \/ PopulateResponse(h)
    \/ BackendCreate(h)
    \/ CreateResponse(h)
    \/ RFinish(h)

LockNext == LockStart \/ LockStep

LockFairness ==
  \A h \in Handlers : WF_vars(PopulateResponse(h)) /\ WF_vars(CreateResponse(h))

SpecLock == Init /\ [][LockNext]_vars /\ LockFairness

(* --- status --- *)
\* lines 676-682: the user is resolved; _get_all_user_events is then called without
\* await, and unpacking the coroutine object it returns raises TypeError before the
\* backend is asked: the command ends in on_command_error, whatever the events are
StartStatus(h, user) ==
  /\ dh[h].pc = "idle"
  /\ LET rec == [IdleHandler EXCEPT !.cmd = "status"] IN
     dh' = [dh EXCEPT ![h] =
              IF user = 0 THEN [Send(rec, "resolve_error") EXCEPT !.pc = "done"]
              ELSE [Send(rec, "internal_error") EXCEPT !.pc = "done",
                                                       !.user_object = user]]
  /\ UNCHANGED <<events, member_roles, last_op>>
  /\ UNCHANGED <<rvars, gvars>>

\* bans, unbans and status queries, one command at a time
StatusStart ==
  \/ \E u \in Users, d \in {"None", "1h"} : StartTempban(1, u, d)
  \/ \E u \in Users : StartUnban(1, u)
  \/ \E u \in Users \cup {0} : StartStatus(1, u)

DNextStatus == (AllIdle /\ StatusStart) \/ DStep

SpecStatus == Init /\ [][DNextStatus]_vars

\* the role commands alone, one at a time, about one member and two roles of the guild
NumRoleNames == 2
RoleNames == 1..NumRoleNames

RoleStart ==
  \/ \E r \in RoleNames, d \in {"None", "1h"} : StartTempAddRole(1, 1, r, d)
  \/ \E r \in RoleNames : StartRemoveRole(1, 1, r)

DNextRoles == (AllIdle /\ RoleStart) \/ DStep

SpecRoles == Init /\ [][DNextRoles]_vars

(* ------------------------------ claims -------------------------------- *)
ApplyCommands == {"tempban", "temp_add_role", "kick"}
PardonCommands == {"unban", "remove_role"}

Succeeded(rec, op) == \E i \in 1..Len(rec.calls) : rec.calls[i] = <<op, TRUE>>
Failed(rec, op) == \E i \in 1..Len(rec.calls) : rec.calls[i] = <<op, FALSE>>

\* C1: an apply command performs its platform action only after the backend created
\* the discipline event of this command; when the type lookup or the creation failed,
\* the command ends without the platform action, telling the moderator that the user
\* was not disciplined.
C1_ActionOnlyAfterEventCreated ==
  \A h \in Handlers :
    dh[h].cmd \in ApplyCommands =>
      /\ HasCalled(dh[h], "platform") =>
            /\ Succeeded(dh[h], "event_create")
            /\ dh[h].created_event \in 1..Len(events)
            /\ events[dh[h].created_event].user = dh[h].user_object
            /\ events[dh[h].created_event].type = dh[h].discipline_type_name
      /\ (Failed(dh[h], "type_lookup") \/ Failed(dh[h], "event_create")) =>
            /\ ~HasCalled(dh[h], "platform")
            /\ dh[h].created_event = 0
            /\ dh[h].pc = "done" => dh[h].msgs = <<"not_disciplined">>
            /\ dh[h].pc # "done" => dh[h].msgs = <<>>

C1_Witness ==
  \E h, g \in Handlers :
    /\ dh[h].cmd = "tempban" /\ dh[h].pc = "done" /\ Failed(dh[h], "event_create")
    /\ dh[g].cmd \in ApplyCommands /\ dh[g].pc = "done" /\ Succeeded(dh[g], "platform")

\* a reversal only after a successful set-pardoned; none after a failed one
C2_Gate ==
  \A h \in Handlers :
    dh[h].cmd \in PardonCommands =>
      /\ HasCalled(dh[h], "platform") =>
            /\ Succeeded(dh[h], "set_pardoned")
            /\ events[dh[h].latest_discipline].is_pardoned
      /\ Failed(dh[h], "set_pardoned") =>
            /\ ~HasCalled(dh[h], "platform")
            /\ dh[h].pc = "done"
            /\ dh[h].msgs = <<"unable_to_pardon">>

\* the step in which set-pardoned fails changes neither the events nor the platform
C2_FailedStep ==
  \A h \in Handlers :
    (~Failed(dh[h], "set_pardoned") /\ Failed(dh'[h], "set_pardoned")) =>
       /\ events' = events
       /\ member_roles' = member_roles
       /\ ~events[dh[h].latest_discipline].is_pardoned =>
             ~events'[dh'[h].latest_discipline].is_pardoned

\* C2: a pardon command performs the platform reversal only after the backend set
\* is_pardoned on the active event; the step in which set-pardoned fails leaves the
\* events as they were, and the command ends without the reversal, telling the
\* moderator that the discipline remains.
C2_ReversalOnlyAfterPardoned == [](C2_Gate) /\ [][C2_FailedStep]_vars

C2_Witness ==
  \E h \in Handlers :
    /\ dh[h].cmd = "unban" /\ dh[h].pc = "done" /\ Failed(dh[h], "set_pardoned")
    /\ ~events[dh[h].latest_discipline].is_pardoned

\* C3: a pardon command whose query reports no active discipline (no event, latest
\* pardoned, latest terminated, or a backend error) has ended with exactly one message
\* giving that reason, and has made no set-pardoned call and no platform reversal.
C3_NotActiveNoMutation ==
  \A h \in Handlers :
    (dh[h].cmd \in PardonCommands /\ HasCalled(dh[h], "get_latest")
       /\ dh[h].latest_discipline = 0) =>
      /\ dh[h].pc = "done"
      /\ ~HasCalled(dh[h], "set_pardoned")
      /\ ~HasCalled(dh[h], "platform")
      /\ Len(dh[h].msgs) = 1
      /\ dh[h].msgs[1] \in {"no_record_not_been_disciplined", "no_record_pardoned",
                             "no_record_expired", "no_record_error"}
      /\ Failed(dh[h], "get_latest") <=> dh[h].msgs[1] = "no_record_error"

C3_Witness ==
  \E h, g \in Handlers :
    /\ dh[h].cmd = "unban" /\ dh[h].msgs = <<"no_record_pardoned">>
    /\ dh[g].cmd = "remove_role" /\ dh[g].msgs = <<"no_record_error">>

\* C4: commands given one at a time: a query of a slot (user, type) nothing was applied
\* to reports 'never disciplined'; after a successful apply that is not terminated it
\* returns the event that apply created; after a successful pardon it reports
\* 'pardoned', and the pardon command that asked makes no set-pardoned call.
C4_QueryFollowsHistory ==
  \A h \in Handlers :
    Succeeded(dh[h], "get_latest") =>
      /\ dh[h].q_last.op = "none" =>
            dh[h].latest_discipline = 0 /\ dh[h].msgs = <<"no_record_not_been_disciplined">>
      /\ dh[h].q_last.op = "applied" =>
            dh[h].latest_discipline = dh[h].q_last.id /\ dh[h].q_last.id > 0
      /\ dh[h].q_last.op = "pardoned" =>
            /\ dh[h].latest_discipline = 0
            /\ dh[h].msgs = <<"no_record_pardoned">>
            /\ ~HasCalled(dh[h], "set_pardoned")

C4_Witness ==
  \E h \in Handlers :
    /\ dh[h].cmd = "unban" /\ dh[h].pc = "done"
    /\ dh[h].q_last.op = "pardoned" /\ dh[h].msgs = <<"no_record_pardoned">>
    /\ Len(events) = 2 /\ events[1].type = BAN_DISCIPLINE_TYPE_NAME
    /\ events[2].type = BAN_DISCIPLINE_TYPE_NAME /\ events[2].is_pardoned

\* C5: a user has at most one active (not terminated, not pardoned) ban event at any
\* time, the instance of the claim for the ban type.
C5_AtMostOneActiveBan ==
  \A u \in Users :
    Cardinality({i \in EventsOf(u, BAN_DISCIPLINE_TYPE_NAME) : IsActive(events[i])}) <= 1

\* no listener or command of the reaction cog is between its start and its return
RQuiet == \A h \in Handlers : rh[h].pc \in {"idle", "done"}

\* the handlers that take the step
Acting(h) == rh'[h] # rh[h]

\* C6: listeners and commands run one at a time, each free to fail at the backend:
\* whenever none is running, the guild's cache entry (empty while the guild is not
\* cached) equals the embeds and mappings the backend holds.
C6_SequentialCacheEqualsBackend == RQuiet => CachedEmbeds = backend_embeds

\* C7: listeners and commands interleave at their awaits: a population that resumes
\* with the list it fetched earlier, in a state where the guild's cache entry equals
\* what the backend holds, leaves them equal; it loses no successful add and brings
\* back no successfully removed mapping or deleted embed.
C7_PopulationKeepsBackendWrites ==
  [][\A h \in Handlers :
       (rh[h].pc = "list_response" /\ Acting(h) /\ CachedEmbeds = backend_embeds) =>
         CachedEmbeds' = backend_embeds']_vars

\* C8: no handler has read or written the cache outside the block of the cache lock.
C8_EveryAccessUnderLock == \A h \in Handlers : ~rh[h].unlocked

\* C9: a population leaves no partial guild entry: when the guild is cached after the
\* step that resumes with the fetched list, every embed of that list is cached, also
\* when an entry of the list is malformed.
C9_NoPartialGuildEntry ==
  [][\A h \in Handlers :
       (rh[h].pc = "list_response" /\ rh[h].response = "ok" /\ Acting(h)) =>
         (Guild \in DOMAIN reaction_mapping_cache' =>
            \A k \in 1..Len(rh[h].reaction_embed_list) :
              rh[h].reaction_embed_list[k].message_snowflake
                \in DOMAIN reaction_mapping_cache'[Guild])]_vars

\* a step of add or remove changes the cached mappings only when it resumes with the
\* backend's acknowledgement
C10_MutationAfterAck ==
  \A h \in Handlers :
    (Acting(h) /\ rh'[h].op \in {"add", "remove"} /\ CachedEmbeds' # CachedEmbeds) =>
      (rh[h].pc \in {"add_response", "remove_response"} /\ rh[h].response = "ok")

\* the step that resumes with the backend's refusal leaves the cache as it was and
\* ends the command with the error message
C10_FailureLeavesCache ==
  \A h \in Handlers :
    (Acting(h) /\ rh[h].pc \in {"add_response", "remove_response"}
       /\ rh[h].response = "err") =>
      /\ reaction_mapping_cache' = reaction_mapping_cache
      /\ CachedEmbeds' = CachedEmbeds
      /\ rh'[h].pc = "done"
      /\ rh'[h].msgs = Append(rh[h].msgs, IF rh[h].op = "add" THEN "unable_to_add"
                                          ELSE "unable_to_remove")

\* the handler that takes the step holds the backend's acknowledgement of e -> r on m
Acknowledged(h, m, e, r) ==
  /\ Acting(h)
  /\ rh[h].response = "ok"
  /\ \/ /\ rh[h].pc = "add_response"
        /\ rh[h].message = m /\ rh[h].emoji = e /\ rh[h].role = r
     \/ /\ rh[h].pc = "create_response"
        /\ rh[h].message = m
        /\ e \in DOMAIN rh[h].id_mapping /\ rh[h].id_mapping[e] = r
     \/ /\ rh[h].pc = "list_response"
        /\ \E k \in 1..Len(rh[h].reaction_embed_list) :
             LET entry == rh[h].reaction_embed_list[k] IN
               /\ entry.message_snowflake = m
               /\ e \in DOMAIN entry.mappings /\ entry.mappings[e] = r

IsCached(embeds, m, e, r) ==
  m \in DOMAIN embeds /\ e \in DOMAIN embeds[m] /\ embeds[m][e] = r

\* a mapping enters the cache only in a step that holds its acknowledgement
C10_OnlyAcknowledgedMappings ==
  \A m \in Messages, e \in Emojis, r \in Roles :
    (IsCached(CachedEmbeds', m, e, r) /\ ~IsCached(CachedEmbeds, m, e, r)) =>
      \E h \in Handlers : Acknowledged(h, m, e, r)

\* C10: add and remove ask the backend first and change the cached mappings only in
\* the step that resumes with its acknowledgement; on its refusal the cache stays as it
\* was and the moderator gets the error message; no mapping enters the cache that the
\* backend has not acknowledged.
C10_BackendFirst ==
  [][C10_MutationAfterAck /\ C10_FailureLeavesCache /\ C10_OnlyAcknowledgedMappings]_vars

C10_Witness ==
  \E h, g \in Handlers :
    /\ rh[h].op = "add" /\ rh[h].pc = "done" /\ rh[h].msgs = <<"unable_to_add">>
    /\ rh[g].op = "remove" /\ rh[g].pc = "done" /\ rh[g].msgs = <<"removed">>
    /\ \E m \in DOMAIN CachedEmbeds : CachedEmbeds[m] = EmptyDict

ReactionEvents == {"reaction_add", "reaction_remove"}

\* C11: a reaction event, added or removed, whose guild or member does not resolve, or
\* whose actor is the bot itself, is dropped: no lookup, no role change, no exception
\* and nothing reported.
C11_UnresolvedReactionDropped ==
  \A h \in Handlers :
    (rh[h].op \in ReactionEvents
       /\ (rh[h].guild # "known" \/ rh[h].member \in {"none", "bot"})) =>
      /\ rh[h].pc = "done"
      /\ ~rh[h].looked_up
      /\ rh[h].role_change = "none"
      /\ rh[h].msgs = <<>>

\* the population that resumes from rec's fetch fails: the fetch failed, or an entry of
\* the fetched list is malformed
PopulationFails(rec) ==
  \/ rec.response = "err"
  \/ \E k \in 1..Len(rec.reaction_embed_list) : ~rec.reaction_embed_list[k].well_formed

\* a lookup that finds the guild absent asks the backend for the list before it
\* answers, and what it then finds is what the populated cache holds
C12_PopulateThenLookup ==
  \A h \in Handlers :
    /\ (Acting(h) /\ rh[h].pc = "idle" /\ rh'[h].looked_up
          /\ Guild \notin DOMAIN reaction_mapping_cache) =>
         (rh'[h].pc = "list_request" /\ rh'[h].mapped_role = 0)
    /\ (Acting(h) /\ rh[h].pc = "list_response" /\ rh'[h].mapped_role # 0) =>
         IsCached(CachedEmbeds', rh[h].message, rh[h].emoji, rh'[h].mapped_role)

\* a population that fails leaves the guild absent, so that the next lookup runs it again
C12_FailedPopulationRetried ==
  \A h \in Handlers :
    (Acting(h) /\ rh[h].pc = "list_response" /\ rh[h].op \in ReactionEvents
       /\ Guild \notin DOMAIN reaction_mapping_cache /\ PopulationFails(rh[h])) =>
      Guild \notin DOMAIN reaction_mapping_cache'

\* C12: a lookup on a guild absent from the cache first runs a full population from
\* the backend and only then evaluates the message and emoji against the populated
\* entry; a guild whose population failed is still absent afterwards, so that the next
\* lookup populates it again.
C12_LazyPopulation ==
  [][C12_PopulateThenLookup /\ C12_FailedPopulationRetried]_vars

\* what a reaction listener prints for each of the three errors of the lookup
LookupErrors == {"not_a_reaction_role_message", "emoji_not_mapped", "role_does_not_exist"}

\* C13: a lookup whose message is tracked and whose emoji is mapped, but whose mapped
\* role id resolves to no role of the guild, reports the third of the three distinct
\* lookup errors (the role does not exist), and no role is granted or revoked.
C13_MissingRoleReported ==
  \A h \in Handlers :
    (rh[h].op \in ReactionEvents /\ rh[h].get_role = "None") =>
      /\ rh[h].msgs = <<"role_does_not_exist">>
      /\ rh[h].role_change = "none"

\* the exchange did not succeed: the connection failed or the status is not the one
\* the operation expects, nor a 404 that the operation gives a meaning of its own
GwFailed(call) ==
  /\ call.pc = "done"
  /\ call.exchange # SuccessStatus(call.op)
  /\ ~(call.exchange = "404" /\ call.op \in {"discipline_event_get_latest_discipline_of_type",
                                            "discipline_event_get_latest_by_username"})

\* C14: every gateway operation reports a connection failure or an unexpected HTTP
\* status as a value, (None, error message) or the error message alone, and never
\* raises; fetch-event-by-id and list-all-events-for-user included.
C14_FailureIsValue ==
  GwFailed(gw) =>
    /\ gw.raised = "none"
    /\ gw.err \notin {"none", "None"}
    /\ gw.value = IF gw.op \in ErrorOnlyOps THEN "none" ELSE "None"

\* C15: list-all-events-for-user, over a backend that serves the user's events in n
\* pages linked by a next pointer, returns the concatenation of all n pages in the
\* backend's order, and asks for no page after the last.
C15_AllPagesReturned ==
  (gw.op = "discipline_event_get_all_for_user" /\ gw.pc = "done" /\ gw.value = "list") =>
    /\ gw.results = [k \in 1..(gw.pages * PageSize) |-> k]
    /\ gw.req_url = 0

\* the resolver fn has returned
Resolved(fn) == rs.pc = "done" /\ rs.fn = fn
\* the member of the guild whose username is the identifier, 0 if there is none
ByUsername == get_member_named(rs.guild, rs.identifier)
\* the member, and the user, whose id the identifier is the decimal form of, 0 if none
MemberById == IF IsNumeric(rs.identifier) THEN get_member(rs.guild, IntOf(rs.identifier)) ELSE 0
UserById == IF IsNumeric(rs.identifier) THEN get_user(rs.guild, IntOf(rs.identifier)) ELSE 0

\* C16: in _resolve_user and in _resolve_member, an identifier that is the exact
\* username of a guild member and also the numeric id of a different member resolves
\* to the member matched by username.
C16_UsernamePrecedence ==
  ((Resolved("_resolve_user") \/ Resolved("_resolve_member"))
     /\ ByUsername # 0 /\ MemberById # 0 /\ rs.guild.name[MemberById] # rs.identifier) =>
    (rs.result = ByUsername /\ rs.err = "None")

\* C17: _resolve_user resolves by username in the guild, else by numeric id as guild
\* member, else by numeric id as global user; it queries the backend exactly when
\* database_fallback is true and all of these failed, never when it is false; when
\* every step fails it returns (None, error) and raises nothing.
C17_ResolveUserOrder ==
  Resolved("_resolve_user") =>
    /\ ByUsername # 0 => rs.result = ByUsername
    /\ (ByUsername = 0 /\ MemberById # 0) => rs.result = MemberById
    /\ (ByUsername = 0 /\ MemberById = 0 /\ UserById # 0) => rs.result = UserById
    /\ rs.backend_called <=>
         (rs.database_fallback /\ ByUsername = 0 /\ MemberById = 0 /\ UserById = 0)
    /\ (ByUsername = 0 /\ MemberById = 0 /\ UserById = 0 /\ rs.latest_event = 0) =>
         (rs.result = 0 /\ rs.err \notin {"none", "None"} /\ rs.raised = "none")

\* every step of _resolve_user has failed, the backend query included
C17_Witness ==
  /\ Resolved("_resolve_user") /\ rs.database_fallback /\ rs.backend_called
  /\ IsNumeric(rs.identifier) /\ rs.latest_event = 0
  /\ rs.result = 0 /\ rs.err = "does_not_exist"

\* the roles of the guild whose name equals the input up to letter case
SameNameUpToCase ==
  {i \in Ids : rs.guild.kind[i] = "member" /\ Lower(rs.guild.name[i]) = Lower(rs.identifier)}

\* C18: for any guild role and any input that equals the role's name up to letter
\* case, upper-case letters in the input included, _resolve_role returns a role of
\* that name.
C18_CaseInsensitive ==
  (Resolved("_resolve_role") /\ SameNameUpToCase # {}) => rs.result \in SameNameUpToCase

\* C19: when no guild role matches the input by name and the input is the numeric id
\* of an existing guild role, _resolve_role returns that role and no warning; it
\* returns an error only when the input is not numeric or no role has that id.
C19_NumericIdFallback ==
  (Resolved("_resolve_role") /\ SameNameUpToCase = {}) =>
    IF IsNumeric(rs.identifier) /\ get_role(rs.guild, IntOf(rs.identifier)) # 0
    THEN rs.result = get_role(rs.guild, IntOf(rs.identifier)) /\ rs.err = "None"
    ELSE rs.result = 0 /\ rs.err = "no_role_matching_name"

\* the handler is in _apply_discipline with a duration that timeparse rejects
UnparsedDuration(rec) ==
  rec.cmd \in ApplyCommands /\ rec.duration # "None" /\ timeparse(rec.duration) = -1

\* C20: an apply whose duration string does not parse tells the moderator that it is
\* not a valid duration and ends: no type lookup, no event creation, no platform action.
C20_BadDurationNoEffect ==
  \A h \in Handlers :
    UnparsedDuration(dh[h]) =>
      /\ dh[h].pc = "done"
      /\ dh[h].msgs = <<"not_a_valid_duration">>
      /\ dh[h].calls = <<>>
      /\ dh[h].created_event = 0

\* a tempban with a duration that does not parse has ended with the report
C20_Witness ==
  \E h \in Handlers :
    /\ UnparsedDuration(dh[h]) /\ dh[h].cmd = "tempban"
    /\ dh[h].pc = "done" /\ dh[h].msgs = <<"not_a_valid_duration">>

\* the event a commit has just created carries what the duration of the apply says
C21_CreatedFromDuration ==
  \A h \in Handlers :
    (dh[h].pc = "commit_create" /\ dh'[h].created_event # 0) =>
      LET e == events'[dh'[h].created_event]
          seconds == timeparse(dh[h].duration)
      IN /\ dh[h].duration = "None" => (e.end_time = NoneTime /\ ~e.is_terminated)
         /\ (dh[h].duration # "None" /\ seconds = 0) => e.is_terminated
         /\ seconds > 0 =>
              (~e.is_terminated /\ e.end_time = PlusSeconds(DatetimeNow, seconds))

\* a query whose latest event was created with a duration of zero seconds answers
\* that the user is not disciplined
C21_ZeroNeverActive ==
  \A h \in Handlers :
    LET latest == BackendLatestOfType(dh[h].user_object, dh[h].discipline_type_name)
    IN (dh[h].pc = "query" /\ dh'[h].pc # "query" /\ latest # 0
          /\ events[latest].end_time = DatetimeNow) =>
         (dh'[h].latest_discipline = 0 /\ dh'[h].pc = "done")

\* C21: an apply with duration None creates an event with no end time that is not
\* terminated; a duration of zero seconds creates an event already terminated, which
\* no later query of the type returns as active; a positive duration creates a
\* non-terminated event whose end time is now plus the duration.
C21_DurationToEvent ==
  [][C21_CreatedFromDuration /\ C21_ZeroNeverActive]_vars

\* an unban has found a ban of zero seconds as the latest and reported it expired
C21_Witness ==
  \E h \in Handlers :
    /\ dh[h].cmd = "unban" /\ dh[h].pc = "done" /\ dh[h].msgs = <<"no_record_expired">>
    /\ \E i \in 1..Len(events) :
         /\ events[i].type = BAN_DISCIPLINE_TYPE_NAME /\ events[i].end_time = DatetimeNow
         /\ events[i].is_terminated

\* what the query of a pardon command has just answered: the event it found active
\* (0 for none) and what it reported
C22_QueryStep ==
  \A h \in Handlers :
    (dh[h].pc = "query" /\ dh'[h].pc # "query") =>
      LET latest == BackendLatestOfType(dh[h].user_object, dh[h].discipline_type_name)
          found == dh'[h].latest_discipline
          told == dh'[h].msgs
      IN IF Failed(dh'[h], "get_latest") THEN found = 0 /\ told = <<"no_record_error">>
         ELSE IF latest = 0 THEN found = 0 /\ told = <<"no_record_not_been_disciplined">>
         ELSE IF events[latest].is_pardoned THEN found = 0 /\ told = <<"no_record_pardoned">>
         ELSE IF events[latest].is_terminated THEN found = 0 /\ told = <<"no_record_expired">>
         ELSE found = latest /\ told = <<>>

\* C22: the query fetches the latest event of the type and returns it as active only
\* if it exists, is not pardoned and is not terminated; otherwise it returns no event
\* and a reason that differs for never disciplined, latest pardoned and latest
\* terminated; a backend error is returned as the error, not as one of these reasons.
C22_QueryCases == [][C22_QueryStep]_vars

\* a query has answered that the latest event of the type is pardoned
C22_Witness ==
  \E h \in Handlers :
    /\ dh[h].cmd \in PardonCommands /\ dh[h].pc = "done"
    /\ Succeeded(dh[h], "get_latest") /\ dh[h].msgs = <<"no_record_pardoned">>

\* C23: the latest-discipline-of-type query answers a 404 with the empty result and no
\* error, and any other status but 200, or a connection failure, with (None, error);
\* the empty result is given for a 404 only.
C23_NotFoundIsNotAnError ==
  (gw.op = "discipline_event_get_latest_discipline_of_type" /\ gw.pc = "done") =>
    /\ gw.raised = "none"
    /\ gw.exchange = "404" => (gw.value = "empty_dict" /\ gw.err = "None")
    /\ gw.exchange = "200" => (gw.value = "json" /\ gw.err = "None")
    /\ gw.exchange \notin {"200", "404"} =>
         (gw.value = "None" /\ gw.err \in {"http_error", "unable_to_contact_database"})

\* the backend has answered the query with a 404
C23_Witness ==
  /\ gw.op = "discipline_event_get_latest_discipline_of_type" /\ gw.pc = "done"
  /\ gw.exchange = "404" /\ gw.value = "empty_dict"

\* C24: pardon is one-way: an event that is pardoned is still there and still pardoned
\* after every step, whatever command or event the step belongs to.
C24_PardonIsOneWay ==
  [][\A i \in 1..Len(events) :
       events[i].is_pardoned => (i <= Len(events') /\ events'[i].is_pardoned)]_vars

\* an event was pardoned and another event has been created since
C24_Witness ==
  /\ Len(events) = 2 /\ events[1].is_pardoned
  /\ \E h \in Handlers : dh[h].cmd \in PardonCommands /\ dh[h].pc = "set_pardoned"

\* the successful creations a command has made
Creations(rec) == {k \in 1..Len(rec.calls) : rec.calls[k] = <<"event_create", TRUE>>}

\* an apply command has created one event if its commit succeeded, and none if the
\* type lookup or the creation failed
C25_OnePerApply(handlers) ==
  \A h \in Handlers :
    handlers[h].cmd \in ApplyCommands =>
      /\ Cardinality(Creations(handlers[h])) <= 1
      /\ (Creations(handlers[h]) # {}) <=> (handlers[h].created_event # 0)
      /\ (Failed(handlers[h], "type_lookup") \/ Failed(handlers[h], "event_create")) =>
           Creations(handlers[h]) = {}
      /\ (handlers[h].pc \in {"after_commit", "done"} /\ handlers[h].calls # <<>>
            /\ ~handlers[h].commit_err) => Cardinality(Creations(handlers[h])) = 1

\* a step keeps every event, adds one exactly when a creation succeeds in it, and,
\* when it is a step of the engine, changes nothing of an event but is_pardoned
C25_EventsOnlyGrow ==
  /\ \A i \in 1..Len(events) :
       /\ i <= Len(events')
       /\ dh' # dh => [events'[i] EXCEPT !.is_pardoned = events[i].is_pardoned] = events[i]
  /\ Len(events') = Len(events) +
       Cardinality({h \in Handlers : /\ dh[h].pc = "commit_create"
                                     /\ Succeeded(dh'[h], "event_create")})

\* C25: every discipline application creates exactly one event when the creation
\* succeeds and none when it fails; no operation deletes an event, the events on the
\* backend only grow, and the engine changes no field of an event but is_pardoned.
C25_EventsCreatedOnceNeverDeleted ==
  [][C25_EventsOnlyGrow /\ C25_OnePerApply(dh')]_vars

\* one apply has created its event and performed its action, another has failed to
\* create its event
C25_Witness ==
  /\ Len(events) = 1
  /\ \E h, g \in Handlers :
       /\ dh[h].cmd \in ApplyCommands /\ dh[h].pc = "done" /\ dh[h].created_event = 1
       /\ Succeeded(dh[h], "platform")
       /\ dh[g].cmd \in ApplyCommands /\ dh[g].pc = "done" /\ Failed(dh[g], "event_create")

\* C26: when the member-banned event comes from a ban the bot issued through a ban
\* command, on_member_ban creates no discipline event, whether or not the scan finds
\* the audit-log entry of the ban: the event of the command stays the only one.
C26_BotBanNotRecordedTwice ==
  bl.issuer = BotUser => bl.created_event = 0

\* the entries of the log whose target is the user
EntriesFor(log, user) == {k \in 1..Len(log) : log[k].target = user}

\* what the listener hands to _commit_user_discipline for an external ban, decided
\* by the scan step: the user of the ban event, and moderator and reason of the first
\* entry of the log for that user
C27_RecordFromMatchingEntry ==
  (bl.pc = "scan" /\ bl.issuer # BotUser /\ bl'.pc = "commit_type") =>
    /\ bl'.banned_user = bl.user
    /\ EntriesFor(bl.audit_logs, bl.user) # {} =>
         LET first == CHOOSE k \in EntriesFor(bl.audit_logs, bl.user) :
                        \A j \in EntriesFor(bl.audit_logs, bl.user) : k <= j
         IN /\ bl'.mod_user_id = bl.audit_logs[first].user
            /\ bl'.ban_reason = IF bl.audit_logs[first].reason = "None" THEN bl.reason
                                ELSE bl.audit_logs[first].reason

\* C27: when on_member_ban records an externally issued ban, the created event names
\* the user of the ban event as the disciplined user and takes moderator and reason
\* from the first audit-log ban entry whose target is that user; entries for other
\* targets, scanned before or instead of it, do not influence the record.
C27_ExternalBanRecord ==
  [][/\ C27_RecordFromMatchingEntry
     /\ (bl.issuer # BotUser /\ bl'.created_event # 0) =>
          events'[bl'.created_event].user = bl.user]_vars

\* C28: after the platform reported that a user was unbanned outside of a bot command,
\* the latest active ban event of that user has been marked pardoned, so that a later
\* query for the ban type finds no active ban.
C28_ExternalUnbanPardons ==
  \A h \in Handlers :
    (Succeeded(dh[h], "get_latest") /\ dh[h].q_last.op = "unbanned_externally") =>
      dh[h].latest_discipline = 0

\* C29: a command that ended in a failure of its own path has sent exactly one message
\* to the moderator: add_role/temp_add_role/mute and remove_role that returned before
\* any backend or platform call (member or role not resolved, role already held), and
\* react remove that did not report the removal
C29_RoleCommands == {"temp_add_role", "remove_role"}
C29_OneMessagePerFailure ==
  /\ \A h \in Handlers :
        (dh[h].pc = "done" /\ dh[h].cmd \in C29_RoleCommands /\ dh[h].calls = <<>>)
          => Len(dh[h].msgs) = 1
  /\ \A h \in Handlers :
        (rh[h].pc = "done" /\ rh[h].op = "remove"
           /\ \A i \in 1..Len(rh[h].msgs) : rh[h].msgs[i] # "removed")
          => Len(rh[h].msgs) = 1

\* the messages the cache holds for the guild
C30_Cached(cache) == IF Guild \in DOMAIN cache THEN DOMAIN cache[Guild] ELSE {}

\* the step in which handler h comes back from reaction_role_embed_create
C30_CreateReturns(h) == rh[h].pc = "create_response" /\ rh'[h].pc = "done"

\* C30: _create_on_backend puts the message's mapping into the cache only after the
\* backend acknowledged the creation, and with the lock held: while the backend has
\* not answered, or has refused, the message is not cached; when the creation failed
\* the cache is left as it was and the error is reported; when it succeeded the cache
\* gets a copy of the mapping, taken with the lock free and no unlocked access
C30_InsertAfterAck ==
  [][\A h \in Handlers :
       /\ (rh[h].pc = "create_request"
             \/ (rh[h].pc = "create_response" /\ rh[h].response = "err"))
            => rh[h].message \notin C30_Cached(reaction_mapping_cache)
       /\ (C30_CreateReturns(h) /\ rh[h].response = "err")
            => /\ reaction_mapping_cache' = reaction_mapping_cache
               /\ rh'[h].msgs = <<"create_error">>
       /\ (C30_CreateReturns(h) /\ rh[h].response = "ok")
            => /\ mapping_cache_lock = 0
               /\ ~rh'[h].unlocked
               /\ rh[h].message \in C30_Cached(reaction_mapping_cache')
               /\ heap'[reaction_mapping_cache'[Guild][rh[h].message]] = rh[h].id_mapping
    ]_vars

\* a create whose backend call succeeded has returned and the cache holds a message,
\* while another create was refused by the backend and left the cache alone
C30_Witness ==
  \E h, g \in Handlers :
    /\ rh[h].pc = "done" /\ rh[h].op = "create" /\ rh[h].msgs = <<"created">>
    /\ C30_Cached(reaction_mapping_cache) # {}
    /\ rh[g].pc = "done" /\ rh[g].op = "create" /\ rh[g].msgs = <<"create_error">>

\* the step in which handler h comes back from reaction_role_embed_delete
C31_DeleteReturns(h) == rh[h].pc = "delete_response" /\ rh'[h].pc = "done"

\* C31: react delete asks the backend first; when the backend refused, the cache is
\* left as it was; when the backend deleted the embed, the message is not in the
\* guild's cache once the command has finished, a missing entry being only logged
C31_DeleteBackendThenCache ==
  [][\A h \in Handlers :
       /\ rh[h].pc = "delete_request"
            => reaction_mapping_cache' = reaction_mapping_cache
       /\ (C31_DeleteReturns(h) /\ rh[h].response = "err")
            => reaction_mapping_cache' = reaction_mapping_cache
       /\ (C31_DeleteReturns(h) /\ rh[h].response = "ok")
            => rh[h].message \notin C30_Cached(reaction_mapping_cache')
    ]_vars

\* the step in which a reaction listener h returns after its lookup found a role and
\* the platform accepted the role change for the resolved member
C32_Applied(h) ==
  /\ rh[h].pc # "done" /\ rh'[h].pc = "done"
  /\ rh'[h].op \in {"reaction_add", "reaction_remove"}
  /\ rh'[h].get_role = "Role"
  /\ rh'[h].member = "member"
  /\ \A i \in 1..Len(rh'[h].msgs) : rh'[h].msgs[i] # "HTTPException"

C33_PlatformRefuses(h) ==
  /\ dh[h].pc = "after_commit" /\ ~dh[h].commit_err
  /\ dh[h].cmd \in ApplyCommands
  /\ Failed(dh'[h], "platform")

C34_LookupNeverRaises ==
  \A h \in Handlers :
    (rh[h].pc = "done" /\ rh[h].looked_up)
      => \A i \in 1..Len(rh[h].msgs) : rh[h].msgs[i] # "KeyError"

\* the reports of a pardon command that found the user not disciplined
C35_NotDisciplined ==
  {"no_record_not_been_disciplined", "no_record_pardoned", "no_record_expired"}

\* C35: whenever a pardon command reports that the user is not disciplined with the
\* type, the backend holds no active event of that type for that user
C35_NotDisciplinedMeansNoneActive ==
  \A h \in Handlers :
    (dh[h].pc = "done" /\ dh[h].cmd \in PardonCommands /\ dh[h].msgs # <<>>
       /\ dh[h].msgs[1] \in C35_NotDisciplined)
      => \A i \in EventsOf(dh[h].user_object, dh[h].discipline_type_name) :
           ~IsActive(events[i])

\* C36: remove_role for role R pardons an event only if that event records the
\* addition of R: the event marked pardoned and the role then removed from the member
\* are about the same role
C36_PardonsEventOfSameRole ==
  [][\A h \in Handlers :
       (dh[h].pc = "set_pardoned" /\ dh[h].cmd = "remove_role" /\ events' # events)
         => events[dh[h].latest_discipline].content = dh[h].matched_role
    ]_vars

\* the step in which handler h takes a temp_add_role command
C37_Starts(h) == dh[h].pc = "idle" /\ dh'[h].cmd = "temp_add_role"

\* C37: temp_add_role on a member who already holds the role sends the one "already
\* has role" message, creates no event and changes no role: the command goes on to the
\* backend only for a role the member does not hold, and the command that reported the
\* held role has made no backend or platform call
C37_HeldRoleNoEffect ==
  [][\A h \in Handlers : C37_Starts(h) =>
       /\ events' = events /\ member_roles' = member_roles
       /\ dh'[h].pc = "commit_type"
            => dh'[h].matched_role \notin member_roles[dh'[h].user_object]
       /\ (\E i \in 1..Len(dh'[h].msgs) : dh'[h].msgs[i] = "already_has_role")
            => /\ dh'[h].msgs = <<"already_has_role">>
               /\ dh'[h].pc = "done"
               /\ dh'[h].calls = <<>>
               /\ dh'[h].created_event = 0
    ]_vars

\* a temp_add_role for a role the member holds has ended with the report
C37_Witness ==
  \E h \in Handlers :
    /\ dh[h].pc = "done" /\ dh[h].cmd = "temp_add_role"
    /\ dh[h].msgs = <<"already_has_role">>
    /\ \E u \in Users : member_roles[u] # {}

\* C38: react remove for an emoji the tracked message does not map reports this and
\* stops: the command that sent the report has returned with that one report, and is
\* never found asking the backend to remove the mapping
C38_UnmappedRemoveStops ==
  \A h \in Handlers :
    (rh[h].op = "remove" /\ rh[h].msgs # <<>> /\ rh[h].msgs[1] = "no_mapping_for_emoji")
      => rh[h].pc = "done" /\ rh[h].msgs = <<"no_mapping_for_emoji">>

\* the handlers whose next step enters a block of the cache lock
C39_AtLock(h) == rh[h].pc \in {"list_response", "create_response"}

\* C39: the cache lock is not held while any handler is suspended on a backend or
\* platform call, every way out of a block of the lock having released it, and every
\* handler that has come to a block of the lock gets through it
C39_LockReleasedAndAcquired ==
  /\ [](mapping_cache_lock = 0)
  /\ \A h \in Handlers : C39_AtLock(h) ~> (rh[h].pc = "done")

\* two handlers have come to a block of the lock at once, one of them a population
\* whose list has a malformed entry
C39_Witness ==
  /\ C39_AtLock(1) /\ C39_AtLock(2)
  /\ \E h \in Handlers :
       /\ rh[h].pc = "list_response" /\ rh[h].response = "ok"
       /\ \E k \in 1..Len(rh[h].reaction_embed_list) :
            ~rh[h].reaction_embed_list[k].well_formed

\* the active events the backend holds for a user
C40_ActiveEvents(user) ==
  {i \in 1..Len(events) : events[i].user = user /\ IsActive(events[i])}

\* C40: status for a user that resolves answers with the user's active events, and
\* with the "does not have any active discipline events" message exactly when the user
\* has none
C40_StatusListsActive ==
  \A h \in Handlers :
    (dh[h].pc = "done" /\ dh[h].cmd = "status" /\ dh[h].user_object # 0)
      => dh[h].msgs = IF C40_ActiveEvents(dh[h].user_object) = {}
                      THEN <<"no_active_events">> ELSE <<"status_embed">>

====
